---- MODULE Spec2Model ----
(***************************************************************************)
(* A model of two cores of the validator:                                  *)
(*   - core/src/leader_schedule_cache.rs: LeaderScheduleCache, shared by   *)
(*     threads that call set_root, slot_leader_at and next_leader_slot;    *)
(*   - programs/vote_api/src/vote_state.rs: VoteState and the vote         *)
(*     program's instructions on one vote account.                         *)
(* Spec is the cache under concurrent callers, VoteSpec the vote account.  *)
(***************************************************************************)
EXTENDS Integers, Sequences, FiniteSets, TLC

VARIABLES
    by_epoch,           \* cached_schedules.0: epoch -> schedule
    insertion_order,    \* cached_schedules.1: VecDeque of epochs
    max_epoch,          \* the u64 behind the max_epoch lock
    poisoned,           \* the max_epoch lock was held by a thread that panicked
    th,                 \* per thread: position in its call, its locals, its result
    calls,              \* number of calls started so far
    account,            \* the vote account: its lamports and the VoteState in its data
    dest,               \* lamports of the account a withdrawal pays
    last,               \* the last vote instruction and its result
    jumps,              \* history: accepted votes that skipped slots
    swept               \* history: votes popped by expiration sweeps

cache_vars == <<by_epoch, insertion_order, max_epoch, poisoned, th, calls>>
vote_vars == <<account, dest, last, jumps, swept>>
vars == <<by_epoch, insertion_order, max_epoch, poisoned, th, calls,
          account, dest, last, jumps, swept>>

(***************************************************************************)
(* Option<T>: None is the empty sequence, Some(x) the sequence <<x>>.      *)
(***************************************************************************)
None == << >>
Some(x) == <<x>>
IsSome(o) == o # << >>
Unwrap(o) == o[1]

(***************************************************************************)
(* Bounds of the model and constants of the program.                       *)
(***************************************************************************)
MAX_SCHEDULES == 10

\* The epoch configuration: no warmup region, the offset half an epoch, as in
\* run_thread_race (where stakers_epoch(0) = 0), scaled down.
SlotsPerEpoch == 2
LeaderScheduleSlotOffset == 1

\* Calls started in one behaviour.
MaxCalls == 2

Threads == {"t1", "t2"}
Nodes == {"P", "Q"}

(***************************************************************************)
(* EpochSchedule (solana_runtime::epoch_schedule), past the warmup region. *)
(***************************************************************************)
get_epoch(slot) == slot \div SlotsPerEpoch
get_slot_index(slot) == slot % SlotsPerEpoch
get_first_slot_in_epoch(epoch) == epoch * SlotsPerEpoch
get_last_slot_in_epoch(epoch) == get_first_slot_in_epoch(epoch) + SlotsPerEpoch - 1
get_slots_in_epoch(epoch) == SlotsPerEpoch
get_stakers_epoch(slot) == (slot + LeaderScheduleSlotOffset) \div SlotsPerEpoch

(***************************************************************************)
(* Banks. A bank is at a slot and knows the stakes of every epoch up to    *)
(* the stakers epoch of its slot.                                          *)
(***************************************************************************)
\* The banks handed to the cache: at slot 0 (stakers epoch 0), and at slots
\* whose stakers epochs (9, 10, 11) fill the cache and overflow it.
BankSlots == {0, 17, 19, 21}
Banks == [slot : BankSlots]
epoch_vote_accounts(bank, epoch) == epoch <= get_stakers_epoch(bank.slot)

(***************************************************************************)
(* leader_schedule_utils::leader_schedule: the schedule of an epoch, a     *)
(* sequence of SlotsPerEpoch node ids fixed by the epoch's stakes and      *)
(* seed, or None when the bank has no stakes for the epoch.  The stakes    *)
(* here make each node lead three slots in a row, so that runs of one      *)
(* leader cross epoch boundaries.                                          *)
(***************************************************************************)
slot_leader(slot) == IF (slot \div 3) % 2 = 0 THEN "P" ELSE "Q"
LeaderScheduleFor(epoch) ==
    [i \in 1..SlotsPerEpoch |-> slot_leader(get_first_slot_in_epoch(epoch) + i - 1)]
leader_schedule(epoch, bank) ==
    IF epoch_vote_accounts(bank, epoch) THEN Some(LeaderScheduleFor(epoch)) ELSE None

(***************************************************************************)
(* The cache's map and queue.                                              *)
(***************************************************************************)
Cached(m, epoch) == epoch \in DOMAIN m
MapInsert(m, epoch, schedule) ==
    [e \in DOMAIN m \cup {epoch} |-> IF e = epoch THEN schedule ELSE m[e]]
MapRemove(m, epoch) == [e \in DOMAIN m \ {epoch} |-> m[e]]
EmptyMap == [e \in {} |-> << >>]

\* Mutant: the lowest epoch is evicted, not the first inserted.
retain_latest_lowest(c) ==
    IF Cardinality(DOMAIN c.schedules) > MAX_SCHEDULES
    THEN LET lowest == CHOOSE e \in DOMAIN c.schedules : \A k \in DOMAIN c.schedules : e <= k
         IN  [schedules |-> MapRemove(c.schedules, lowest),
              order |-> SelectSeq(c.order, LAMBDA k : k # lowest)]
    ELSE c

\* Mutant: the evicted epoch leaves the map but stays in the queue.
retain_latest_keeps_queue(c) ==
    IF Cardinality(DOMAIN c.schedules) > MAX_SCHEDULES
    THEN [schedules |-> MapRemove(c.schedules, Head(c.order)), order |-> c.order]
    ELSE c

\* retain_latest: one eviction, of the front of the queue, when over the bound.
retain_latest(c) ==
    IF Cardinality(DOMAIN c.schedules) > MAX_SCHEDULES
    THEN [schedules |-> MapRemove(c.schedules, Head(c.order)), order |-> Tail(c.order)]
    ELSE c

\* Mutant: no check that the entry is vacant.
insert_schedule_unchecked(c, epoch, schedule) ==
    [schedules |-> MapInsert(c.schedules, epoch, schedule),
     order |-> Append(c.order, epoch)]

\* The write-locked part of compute_epoch_schedule: insert if vacant.
insert_schedule(c, epoch, schedule) ==
    IF Cached(c.schedules, epoch)
    THEN c
    ELSE retain_latest([schedules |-> MapInsert(c.schedules, epoch, schedule),
                        order |-> Append(c.order, epoch)])

\* compute_epoch_schedule as one sequential call (used by new, where no other
\* thread holds the cache yet).
compute_epoch_schedule(c, epoch, bank) ==
    IF IsSome(leader_schedule(epoch, bank))
    THEN insert_schedule(c, epoch, Unwrap(leader_schedule(epoch, bank)))
    ELSE c

\* Mutant: the schedule is indexed by the epoch, not by the slot's index in it.
slot_leader_at_no_compute_by_epoch(m, slot) ==
    IF Cached(m, get_epoch(slot))
    THEN Some(m[get_epoch(slot)][(get_epoch(slot) % SlotsPerEpoch) + 1])
    ELSE None

\* Mutant: the first leader of the epoch, whatever the slot's index.
slot_leader_at_no_compute_first(m, slot) ==
    IF Cached(m, get_epoch(slot)) THEN Some(m[get_epoch(slot)][1]) ELSE None

\* slot_leader_at_no_compute on the map m.
slot_leader_at_no_compute(m, slot) ==
    IF Cached(m, get_epoch(slot))
    THEN Some(m[get_epoch(slot)][get_slot_index(slot) + 1])
    ELSE None

(***************************************************************************)
(* LeaderScheduleCache::new, run to completion by the constructing thread. *)
(***************************************************************************)
\* slot_leader_at_else_compute's effect on the cache, run sequentially.
slot_leader_at_seq(c, max, slot, bank) ==
    IF get_epoch(slot) > max \/ IsSome(slot_leader_at_no_compute(c.schedules, slot))
    THEN c
    ELSE compute_epoch_schedule(c, get_epoch(slot), bank)

\* for epoch in from..stakers_epoch { slot_leader_at(first_slot_in_epoch, Some(root_bank)) }
RECURSIVE warm_epochs(_, _, _, _, _)
warm_epochs(c, max, from, to, bank) ==
    IF from >= to
    THEN c
    ELSE warm_epochs(slot_leader_at_seq(c, max, get_first_slot_in_epoch(from), bank),
                     max, from + 1, to, bank)

\* set_root on the fresh cache (max_epoch = 0), then the warming loop.
new_cache(root_bank) ==
    LET stakers_epoch == get_stakers_epoch(root_bank.slot)
        empty == [schedules |-> EmptyMap, order |-> << >>]
        rooted == IF stakers_epoch > 0
                  THEN compute_epoch_schedule(empty, stakers_epoch, root_bank)
                  ELSE empty
    IN  [cache |-> warm_epochs(rooted, stakers_epoch, 0, stakers_epoch, root_bank),
         max_epoch |-> stakers_epoch]

(***************************************************************************)
(* The callers' threads.                                                   *)
(***************************************************************************)
ReceivedSets == {{1}}
\* The slots asked for: in epochs 0, 1, 10 and 11, at either index.
QuerySlots == {0, 3, 20, 21, 23}
CurrentSlots == {0, 19}
\* The banks next_leader_slot is handed: the oldest and the newest.
LeaderBanks == {b \in Banks : b.slot \in {0, 21}}
\* A blocktree is the map from the slots that have a SlotMeta to the meta's
\* received count.
BlockStores == {None} \cup {Some([s \in r |-> 1]) : r \in ReceivedSets}

\* blocktree.meta(slot): the received count of the slot's meta, if it has one.
meta(blocktree, slot) ==
    IF slot \in DOMAIN blocktree THEN Some(blocktree[slot]) ELSE None

\* Mutant: a slot with a meta is skipped whatever its received count.
already_sent_any_meta(blocktree, slot) ==
    IsSome(blocktree) /\ IsSome(meta(Unwrap(blocktree), slot))

\* if let Some(meta) = blocktree.meta(slot) { if meta.received > 0 { continue } }
already_sent(blocktree, slot) ==
    /\ IsSome(blocktree)
    /\ IsSome(meta(Unwrap(blocktree), slot))
    /\ Unwrap(meta(Unwrap(blocktree), slot)) > 0

IdleThread ==
    [pc |-> "idle", op |-> "none", slot |-> 0, bank |-> None, pubkey |-> "P",
     blocktree |-> None, epoch |-> 0, idx |-> 0, cache_result |-> None,
     seen_max |-> None, sched |-> None, current_slot |-> 0, first_slot |-> None,
     last_slot |-> 0, raised |-> FALSE, computed |-> FALSE, ret |-> None,
     held |-> {}]

CanCall(t) == th[t].pc \in {"idle", "done"} /\ calls < MaxCalls

\* Mutant: a slot already sent still moves last_slot.
RECURSIVE scan_epoch_counts_sent(_, _, _, _, _, _, _)
scan_epoch_counts_sent(pubkey, schedule, i, current_slot, first_slot, last_slot, blocktree) ==
    IF i >= Len(schedule)
    THEN [returned |-> FALSE, current_slot |-> current_slot,
          first_slot |-> first_slot, last_slot |-> last_slot]
    ELSE LET slot == current_slot + 1 IN
         IF pubkey = schedule[i + 1]
         THEN IF already_sent(blocktree, slot)
              THEN scan_epoch_counts_sent(pubkey, schedule, i + 1, slot, first_slot,
                                          IF IsSome(first_slot) THEN slot ELSE last_slot,
                                          blocktree)
              ELSE scan_epoch_counts_sent(pubkey, schedule, i + 1, slot,
                                          IF IsSome(first_slot) THEN first_slot ELSE Some(slot),
                                          slot, blocktree)
         ELSE IF IsSome(first_slot)
              THEN [returned |-> TRUE, current_slot |-> slot,
                    first_slot |-> first_slot, last_slot |-> last_slot]
              ELSE scan_epoch_counts_sent(pubkey, schedule, i + 1, slot, first_slot,
                                          last_slot, blocktree)

\* Mutant: a slot already sent ends the run in progress.
RECURSIVE scan_epoch_sent_ends_run(_, _, _, _, _, _, _)
scan_epoch_sent_ends_run(pubkey, schedule, i, current_slot, first_slot, last_slot, blocktree) ==
    IF i >= Len(schedule)
    THEN [returned |-> FALSE, current_slot |-> current_slot,
          first_slot |-> first_slot, last_slot |-> last_slot]
    ELSE LET slot == current_slot + 1 IN
         IF pubkey = schedule[i + 1] /\ ~already_sent(blocktree, slot)
         THEN scan_epoch_sent_ends_run(pubkey, schedule, i + 1, slot,
                                       IF IsSome(first_slot) THEN first_slot ELSE Some(slot),
                                       slot, blocktree)
         ELSE IF IsSome(first_slot)
              THEN [returned |-> TRUE, current_slot |-> slot,
                    first_slot |-> first_slot, last_slot |-> last_slot]
              ELSE scan_epoch_sent_ends_run(pubkey, schedule, i + 1, slot, first_slot,
                                            last_slot, blocktree)

\* The inner loop of next_leader_slot over one epoch's schedule, from index i:
\* [returned, current_slot, first_slot, last_slot] when the loop is left.
RECURSIVE scan_epoch(_, _, _, _, _, _, _)
scan_epoch(pubkey, schedule, i, current_slot, first_slot, last_slot, blocktree) ==
    IF i >= Len(schedule)
    THEN [returned |-> FALSE, current_slot |-> current_slot,
          first_slot |-> first_slot, last_slot |-> last_slot]
    ELSE LET slot == current_slot + 1 IN
         IF pubkey = schedule[i + 1]
         THEN IF already_sent(blocktree, slot)
              THEN scan_epoch(pubkey, schedule, i + 1, slot, first_slot, last_slot, blocktree)
              ELSE scan_epoch(pubkey, schedule, i + 1, slot,
                              IF IsSome(first_slot) THEN first_slot ELSE Some(slot),
                              slot, blocktree)
         ELSE IF IsSome(first_slot)
              THEN [returned |-> TRUE, current_slot |-> slot,
                    first_slot |-> first_slot, last_slot |-> last_slot]
              ELSE scan_epoch(pubkey, schedule, i + 1, slot, first_slot, last_slot, blocktree)

\* A call's record once it has returned: its arguments and its result.
returned(r, ret) ==
    [IdleThread EXCEPT !.pc = "done", !.op = r.op, !.slot = r.slot, !.bank = r.bank,
                       !.pubkey = r.pubkey, !.blocktree = r.blocktree,
                       !.seen_max = r.seen_max, !.raised = r.raised,
                       !.computed = r.computed, !.ret = ret]

\* first_slot.and_then(|slot| Some((slot, last_slot)))
run_of(first_slot, last_slot) ==
    IF IsSome(first_slot) THEN Some(<<Unwrap(first_slot), last_slot>>) ELSE None

\* Mutant: a run in progress is returned at the end of the epoch.
nls_scan_epoch_ends_run(r, schedule) ==
    LET s == scan_epoch(r.pubkey, schedule, r.idx, r.current_slot, r.first_slot,
                        r.last_slot, r.blocktree)
    IN  IF s.returned \/ IsSome(s.first_slot)
        THEN returned(r, run_of(s.first_slot, s.last_slot))
        ELSE [r EXCEPT !.pc = "nls_get", !.epoch = r.epoch + 1, !.idx = 0,
                       !.current_slot = s.current_slot, !.first_slot = s.first_slot,
                       !.last_slot = s.last_slot, !.sched = None]

\* next_leader_slot once it holds the schedule of r.epoch: scan it, and either
\* return or go on to look the next epoch up.
nls_scan(r, schedule) ==
    LET s == scan_epoch(r.pubkey, schedule, r.idx, r.current_slot, r.first_slot,
                        r.last_slot, r.blocktree)
    IN  IF s.returned
        THEN returned(r, run_of(s.first_slot, s.last_slot))
        ELSE [r EXCEPT !.pc = "nls_get", !.epoch = r.epoch + 1, !.idx = 0,
                       !.current_slot = s.current_slot, !.first_slot = s.first_slot,
                       !.last_slot = s.last_slot, !.sched = None]

\* Mutant: an epoch that is not cached is scanned with the builder's schedule
\* whether or not the bank has the epoch's stakes.
nls_lookup_unchecked(r, m) ==
    nls_scan(r, IF Cached(m, r.epoch) THEN m[r.epoch] ELSE LeaderScheduleFor(r.epoch))

\* get_epoch_schedule_else_compute's read-locked lookup of r.epoch.
nls_lookup(r, m) ==
    IF Cached(m, r.epoch) THEN nls_scan(r, m[r.epoch]) ELSE [r EXCEPT !.pc = "compute"]

\* Mutant: a failed build is replaced by the schedule of epoch 0.
after_no_schedule_default(r) ==
    [r EXCEPT !.pc = "insert", !.sched = Some(LeaderScheduleFor(0))]

\* Mutant: next_leader_slot asks again for an epoch it got no schedule for.
after_no_schedule_retry(r) ==
    IF r.op = "next_leader_slot"
    THEN [r EXCEPT !.pc = "nls_get"]
    ELSE returned(r, None)

\* What a call does once compute_epoch_schedule has returned None.
after_no_schedule(r) ==
    IF r.op = "next_leader_slot"
    THEN returned(r, run_of(r.first_slot, r.last_slot))
    ELSE returned(r, None)

\* What a call does once compute_epoch_schedule has returned its schedule.
after_schedule(r) ==
    CASE r.op = "next_leader_slot" -> nls_scan(r, Unwrap(r.sched))
      [] r.op = "slot_leader_at" ->
            returned(r, Some(Unwrap(r.sched)[r.idx + 1]))
      [] OTHER -> returned(r, None)

\* slot_leader_at(slot, None): slot_leader_at_no_compute under the read lock.
SlotLeaderAtNoBank(t, slot) ==
    /\ CanCall(t)
    /\ calls' = calls + 1
    /\ th' = [th EXCEPT ![t] = [IdleThread EXCEPT
                 !.pc = "done", !.op = "slot_leader_at_none", !.slot = slot,
                 !.ret = slot_leader_at_no_compute(by_epoch, slot)]]
    /\ UNCHANGED <<by_epoch, insertion_order, max_epoch, poisoned, vote_vars>>

\* slot_leader_at(slot, Some(bank)) up to the first line of
\* slot_leader_at_else_compute: the read-locked lookup.
SlotLeaderAtLookup(t, slot, bank) ==
    /\ CanCall(t)
    /\ calls' = calls + 1
    /\ th' = [th EXCEPT ![t] = [IdleThread EXCEPT
                 !.pc = "sla_max", !.op = "slot_leader_at", !.slot = slot,
                 !.bank = Some(bank), !.epoch = get_epoch(slot),
                 !.idx = get_slot_index(slot),
                 !.cache_result = slot_leader_at_no_compute(by_epoch, slot)]]
    /\ UNCHANGED <<by_epoch, insertion_order, max_epoch, poisoned, vote_vars>>

\* Mutant: no horizon check.
sla_check_no_horizon(r, max, poison) ==
    CASE poison -> [r EXCEPT !.pc = "panicked"]
      [] ~poison /\ IsSome(r.cache_result) ->
            returned([r EXCEPT !.seen_max = Some(max)], r.cache_result)
      [] OTHER -> [r EXCEPT !.pc = "compute", !.seen_max = Some(max), !.cache_result = None]

\* Mutant: a cached answer is returned before the horizon is looked at.
sla_check_cache_first(r, max, poison) ==
    CASE poison -> [r EXCEPT !.pc = "panicked"]
      [] ~poison /\ IsSome(r.cache_result) ->
            returned([r EXCEPT !.seen_max = Some(max)], r.cache_result)
      [] ~poison /\ ~IsSome(r.cache_result) /\ r.epoch > max ->
            returned([r EXCEPT !.seen_max = Some(max)], None)
      [] OTHER -> [r EXCEPT !.pc = "compute", !.seen_max = Some(max), !.cache_result = None]

\* The horizon check: max_epoch.read().unwrap() panics on a poisoned lock.
sla_check(r, max, poison) ==
    CASE poison -> [r EXCEPT !.pc = "panicked"]
      [] ~poison /\ r.epoch > max ->
            returned([r EXCEPT !.seen_max = Some(max)], None)
      [] ~poison /\ r.epoch <= max /\ IsSome(r.cache_result) ->
            returned([r EXCEPT !.seen_max = Some(max)], r.cache_result)
      [] OTHER -> [r EXCEPT !.pc = "compute", !.seen_max = Some(max), !.cache_result = None]

SlotLeaderAtCheck(t) ==
    /\ th[t].pc = "sla_max"
    /\ th' = [th EXCEPT ![t] = sla_check(th[t], max_epoch, poisoned)]
    /\ UNCHANGED <<by_epoch, insertion_order, max_epoch, poisoned, calls, vote_vars>>

\* compute_epoch_schedule, first line: the builder runs with no lock held.
Compute(t) ==
    /\ th[t].pc = "compute"
    /\ LET built == leader_schedule(th[t].epoch, Unwrap(th[t].bank)) IN
       th' = [th EXCEPT ![t] =
                 IF IsSome(built)
                 THEN [th[t] EXCEPT !.pc = "insert", !.sched = built, !.computed = TRUE]
                 ELSE after_no_schedule([th[t] EXCEPT !.computed = TRUE])]
    /\ UNCHANGED <<by_epoch, insertion_order, max_epoch, poisoned, calls, vote_vars>>

\* compute_epoch_schedule, the rest: under the write lock, insert if vacant.
Insert(t) ==
    /\ th[t].pc = "insert"
    /\ LET c == insert_schedule([schedules |-> by_epoch, order |-> insertion_order],
                                th[t].epoch, Unwrap(th[t].sched))
       IN  /\ by_epoch' = c.schedules
           /\ insertion_order' = c.order
    /\ th' = [th EXCEPT ![t] = after_schedule(th[t])]
    /\ UNCHANGED <<max_epoch, poisoned, calls, vote_vars>>

\* Mutant: no assertion.
set_root_locked_unasserted(max, new_max_epoch) ==
    [max_epoch |-> new_max_epoch, panicked |-> FALSE, compute |-> new_max_epoch > max]

\* Mutant: the schedule is computed also when the horizon did not move.
set_root_locked_recompute(max, new_max_epoch) ==
    [max_epoch |-> new_max_epoch,
     panicked |-> ~(new_max_epoch >= max),
     compute |-> new_max_epoch >= max]

\* set_root under the max_epoch write lock: the store, then the assertion.
\* A failed assertion panics with the lock held and the new value stored.
set_root_locked(max, new_max_epoch) ==
    [max_epoch |-> new_max_epoch,
     panicked |-> ~(new_max_epoch >= max),
     compute |-> new_max_epoch > max]

SetRoot(t, bank) ==
    /\ CanCall(t)
    /\ calls' = calls + 1
    /\ LET new_max_epoch == get_stakers_epoch(bank.slot)
           r == [IdleThread EXCEPT !.op = "set_root", !.bank = Some(bank),
                                   !.slot = bank.slot, !.epoch = new_max_epoch,
                                   !.seen_max = Some(max_epoch),
                                   !.raised = new_max_epoch > max_epoch]
           w == set_root_locked(max_epoch, new_max_epoch)
       IN  IF poisoned
           THEN /\ th' = [th EXCEPT ![t] = [r EXCEPT !.pc = "panicked", !.seen_max = None,
                                                     !.raised = FALSE]]
                /\ UNCHANGED <<max_epoch, poisoned>>
           ELSE /\ max_epoch' = w.max_epoch
                /\ poisoned' = w.panicked
                /\ th' = [th EXCEPT ![t] =
                             CASE w.panicked -> [r EXCEPT !.pc = "panicked"]
                               [] ~w.panicked /\ w.compute ->
                                     [r EXCEPT !.pc = "compute"]
                               [] OTHER -> returned(r, None)]
    /\ UNCHANGED <<by_epoch, insertion_order, vote_vars>>

(***************************************************************************)
(* The same calls with the two RwLocks explicit: a thread waits for a lock, *)
(* takes a guard, works under it and drops it where the guard's scope ends. *)
(* held is the set of guards a thread owns.                                *)
(***************************************************************************)
Guard(lock, mode) == [lock |-> lock, mode |-> mode]
WriteLocked(lock) == \E u \in Threads : Guard(lock, "write") \in th[u].held
Locked(lock) == \E u \in Threads : \E g \in th[u].held : g.lock = lock
\* RwLock::read waits for the writer, RwLock::write for every guard.
CanRead(lock) == ~WriteLocked(lock)
CanWrite(lock) == ~Locked(lock)

take_guard(r, lock, mode) == [r EXCEPT !.held = @ \cup {Guard(lock, mode)}]

\* Mutant: a guard outlives its scope.
drop_guard_leaked(r, lock) == r

\* The guard on the lock goes out of scope.
drop_guard(r, lock) == [r EXCEPT !.held = {g \in @ : g.lock # lock}]

\* The call's record after a step, with the guards the thread owns.
keep_guards(r, after) == [after EXCEPT !.held = r.held]

CallSlotLeaderAtNoBank(t, slot) ==
    /\ CanCall(t)
    /\ calls' = calls + 1
    /\ th' = [th EXCEPT ![t] = [IdleThread EXCEPT
                 !.pc = "lock_none", !.op = "slot_leader_at_none", !.slot = slot,
                 !.held = th[t].held]]
    /\ UNCHANGED <<by_epoch, insertion_order, max_epoch, poisoned, vote_vars>>

CallSlotLeaderAt(t, slot, bank) ==
    /\ CanCall(t)
    /\ calls' = calls + 1
    /\ th' = [th EXCEPT ![t] = [IdleThread EXCEPT
                 !.pc = "lock_lookup", !.op = "slot_leader_at", !.slot = slot,
                 !.bank = Some(bank), !.epoch = get_epoch(slot),
                 !.idx = get_slot_index(slot), !.held = th[t].held]]
    /\ UNCHANGED <<by_epoch, insertion_order, max_epoch, poisoned, vote_vars>>

CallSetRoot(t, bank) ==
    /\ CanCall(t)
    /\ calls' = calls + 1
    /\ th' = [th EXCEPT ![t] = [IdleThread EXCEPT
                 !.pc = "lock_root", !.op = "set_root", !.bank = Some(bank),
                 !.slot = bank.slot, !.epoch = get_stakers_epoch(bank.slot),
                 !.held = th[t].held]]
    /\ UNCHANGED <<by_epoch, insertion_order, max_epoch, poisoned, vote_vars>>

\* self.cached_schedules.read().unwrap() in slot_leader_at_no_compute
ReadCachedSchedules(t) ==
    /\ th[t].pc \in {"lock_none", "lock_lookup"}
    /\ CanRead("cached_schedules")
    /\ th' = [th EXCEPT ![t] = take_guard(
                 [@ EXCEPT !.pc = IF @ = "lock_none" THEN "locked_none" ELSE "locked_lookup"],
                 "cached_schedules", "read")]
    /\ UNCHANGED <<by_epoch, insertion_order, max_epoch, poisoned, calls, vote_vars>>

\* .0.get(&epoch).map(..) under the read guard, a temporary of the expression.
LockedLookup(t) ==
    /\ th[t].pc \in {"locked_none", "locked_lookup"}
    /\ LET found == slot_leader_at_no_compute(by_epoch, th[t].slot) IN
       th' = [th EXCEPT ![t] = drop_guard(
                 IF th[t].pc = "locked_none"
                 THEN keep_guards(th[t], returned(th[t], found))
                 ELSE [th[t] EXCEPT !.pc = "lock_max", !.cache_result = found],
                 "cached_schedules")]
    /\ UNCHANGED <<by_epoch, insertion_order, max_epoch, poisoned, calls, vote_vars>>

\* self.max_epoch.read().unwrap(): panics on the poisoned lock.
ReadMaxEpoch(t) ==
    /\ th[t].pc = "lock_max"
    /\ CanRead("max_epoch")
    /\ th' = [th EXCEPT ![t] =
                 IF poisoned
                 THEN [@ EXCEPT !.pc = "panicked"]
                 ELSE take_guard([@ EXCEPT !.pc = "locked_max"], "max_epoch", "read")]
    /\ UNCHANGED <<by_epoch, insertion_order, max_epoch, poisoned, calls, vote_vars>>

\* bank_epoch > *guard: the guard is a temporary of the if condition.
LockedCheck(t) ==
    /\ th[t].pc = "locked_max"
    /\ th' = [th EXCEPT ![t] = drop_guard(
                 keep_guards(th[t], sla_check(th[t], max_epoch, poisoned)), "max_epoch")]
    /\ UNCHANGED <<by_epoch, insertion_order, max_epoch, poisoned, calls, vote_vars>>

\* self.cached_schedules.write().unwrap() in compute_epoch_schedule
WriteCachedSchedules(t) ==
    /\ th[t].pc = "insert"
    /\ CanWrite("cached_schedules")
    /\ th' = [th EXCEPT ![t] = take_guard([@ EXCEPT !.pc = "locked_insert"],
                                          "cached_schedules", "write")]
    /\ UNCHANGED <<by_epoch, insertion_order, max_epoch, poisoned, calls, vote_vars>>

\* The closure of compute_epoch_schedule under the write guard, to its end.
LockedInsert(t) ==
    /\ th[t].pc = "locked_insert"
    /\ LET c == insert_schedule([schedules |-> by_epoch, order |-> insertion_order],
                                th[t].epoch, Unwrap(th[t].sched))
       IN  /\ by_epoch' = c.schedules
           /\ insertion_order' = c.order
    /\ th' = [th EXCEPT ![t] = drop_guard(keep_guards(th[t], after_schedule(th[t])),
                                          "cached_schedules")]
    /\ UNCHANGED <<max_epoch, poisoned, calls, vote_vars>>

\* self.max_epoch.write().unwrap() in set_root: panics on the poisoned lock.
WriteMaxEpoch(t) ==
    /\ th[t].pc = "lock_root"
    /\ CanWrite("max_epoch")
    /\ th' = [th EXCEPT ![t] =
                 IF poisoned
                 THEN [@ EXCEPT !.pc = "panicked"]
                 ELSE take_guard([@ EXCEPT !.pc = "locked_root"], "max_epoch", "write")]
    /\ UNCHANGED <<by_epoch, insertion_order, max_epoch, poisoned, calls, vote_vars>>

\* The block of set_root under the write guard: the store, the assertion, and
\* the end of the block (or the unwinding), where the guard is dropped.
LockedSetRoot(t) ==
    /\ th[t].pc = "locked_root"
    /\ LET w == set_root_locked(max_epoch, th[t].epoch)
           r == [th[t] EXCEPT !.seen_max = Some(max_epoch),
                              !.raised = th[t].epoch > max_epoch]
       IN  /\ max_epoch' = w.max_epoch
           /\ poisoned' = w.panicked
           /\ th' = [th EXCEPT ![t] = drop_guard(
                        CASE w.panicked -> [r EXCEPT !.pc = "panicked"]
                          [] ~w.panicked /\ w.compute -> [r EXCEPT !.pc = "compute"]
                          [] OTHER -> keep_guards(r, returned(r, None)),
                        "max_epoch")]
    /\ UNCHANGED <<by_epoch, insertion_order, calls, vote_vars>>

\* next_leader_slot up to its first lookup.
NextLeaderSlot(t, pubkey, current_slot, bank, blocktree) ==
    /\ CanCall(t)
    /\ calls' = calls + 1
    /\ th' = [th EXCEPT ![t] = nls_lookup(
                 [IdleThread EXCEPT
                    !.op = "next_leader_slot", !.pubkey = pubkey, !.slot = current_slot,
                    !.bank = Some(bank), !.blocktree = blocktree,
                    !.epoch = get_epoch(current_slot + 1),
                    !.idx = get_slot_index(current_slot + 1),
                    !.current_slot = current_slot, !.last_slot = current_slot],
                 by_epoch)]
    /\ UNCHANGED <<by_epoch, insertion_order, max_epoch, poisoned, vote_vars>>

\* next_leader_slot's lookup of the next epoch.
NextLeaderSlotGet(t) ==
    /\ th[t].pc = "nls_get"
    /\ th' = [th EXCEPT ![t] = nls_lookup(th[t], by_epoch)]
    /\ UNCHANGED <<by_epoch, insertion_order, max_epoch, poisoned, calls, vote_vars>>

(***************************************************************************)
(* vote_state.rs: Lockout and VoteState.                                   *)
(***************************************************************************)
MAX_LOCKOUT_HISTORY == 31
INITIAL_LOCKOUT == 2
MAX_EPOCH_CREDITS_HISTORY == 64

\* Pubkey::default(), the vote account's key, its node, and another signer.
DefaultKey == "0"
VoteKey == "K"
NodeKey == "N"
OtherKey == "A"

\* Lockout::new
new_lockout(vote) == [slot |-> vote.slot, confirmation_count |-> 1]
lockout(v) == INITIAL_LOCKOUT ^ v.confirmation_count
expiration_slot(v) == v.slot + lockout(v)
\* Mutant: a vote is expired at its expiration slot.
is_expired_at_expiration(v, slot) == expiration_slot(v) <= slot
is_expired(v, slot) == expiration_slot(v) < slot

\* VoteState::default() and VoteState::new
DefaultVoteState ==
    [votes |-> << >>, node_pubkey |-> DefaultKey, authorized_voter_pubkey |-> DefaultKey,
     commission |-> 0, root_slot |-> None, epoch |-> 0, credits |-> 0,
     last_epoch_credits |-> 0, epoch_credits |-> << >>]
new_vote_state(vote_pubkey, node_pubkey, commission) ==
    [DefaultVoteState EXCEPT !.node_pubkey = node_pubkey,
                             !.authorized_voter_pubkey = vote_pubkey,
                             !.commission = commission]

\* Mutant: the sweep pops one vote at most.
pop_expired_votes_once(votes, slot) ==
    IF Len(votes) > 0 /\ is_expired(votes[Len(votes)], slot)
    THEN SubSeq(votes, 1, Len(votes) - 1)
    ELSE votes

RECURSIVE pop_expired_votes(_, _)
pop_expired_votes(votes, slot) ==
    IF Len(votes) > 0 /\ is_expired(votes[Len(votes)], slot)
    THEN pop_expired_votes(SubSeq(votes, 1, Len(votes) - 1), slot)
    ELSE votes

\* Mutant: a lockout doubles as soon as the depth reaches its count.
double_lockouts_at_depth(votes) ==
    [i \in 1..Len(votes) |->
        IF Len(votes) >= (i - 1) + votes[i].confirmation_count
        THEN [votes[i] EXCEPT !.confirmation_count = @ + 1]
        ELSE votes[i]]

\* Mutant: the front vote's lockout never doubles.
double_lockouts_skip_front(votes) ==
    [i \in 1..Len(votes) |->
        IF i > 1 /\ Len(votes) > (i - 1) + votes[i].confirmation_count
        THEN [votes[i] EXCEPT !.confirmation_count = @ + 1]
        ELSE votes[i]]

\* Mutant: every lockout doubles on every vote.
double_lockouts_always(votes) ==
    [i \in 1..Len(votes) |-> [votes[i] EXCEPT !.confirmation_count = @ + 1]]

double_lockouts(votes) ==
    [i \in 1..Len(votes) |->
        IF Len(votes) > (i - 1) + votes[i].confirmation_count
        THEN [votes[i] EXCEPT !.confirmation_count = @ + 1]
        ELSE votes[i]]

\* Mutant: a credit in a new epoch counts twice.
increment_credits_twice(vs, epoch) ==
    LET pushed == Append(vs.epoch_credits, <<vs.epoch, vs.credits, vs.last_epoch_credits>>)
        kept == IF Len(pushed) > MAX_EPOCH_CREDITS_HISTORY THEN Tail(pushed) ELSE pushed
    IN  IF epoch # vs.epoch
        THEN [vs EXCEPT !.epoch_credits = kept, !.epoch = epoch,
                        !.last_epoch_credits = vs.credits, !.credits = @ + 2]
        ELSE [vs EXCEPT !.credits = @ + 1]

\* Mutant: the entry pushed carries the new epoch.
increment_credits_new_epoch(vs, epoch) ==
    LET pushed == Append(vs.epoch_credits, <<epoch, vs.credits, vs.last_epoch_credits>>)
        kept == IF Len(pushed) > MAX_EPOCH_CREDITS_HISTORY THEN Tail(pushed) ELSE pushed
        rolled == IF epoch # vs.epoch
                  THEN [vs EXCEPT !.epoch_credits = kept, !.epoch = epoch,
                                  !.last_epoch_credits = vs.credits]
                  ELSE vs
    IN  [rolled EXCEPT !.credits = @ + 1]

\* Mutant: the history of credits by epoch is never cut.
increment_credits_uncut(vs, epoch) ==
    LET pushed == Append(vs.epoch_credits, <<vs.epoch, vs.credits, vs.last_epoch_credits>>)
        rolled == IF epoch # vs.epoch
                  THEN [vs EXCEPT !.epoch_credits = pushed, !.epoch = epoch,
                                  !.last_epoch_credits = vs.credits]
                  ELSE vs
    IN  [rolled EXCEPT !.credits = @ + 1]

increment_credits(vs, epoch) ==
    LET pushed == Append(vs.epoch_credits, <<vs.epoch, vs.credits, vs.last_epoch_credits>>)
        kept == IF Len(pushed) > MAX_EPOCH_CREDITS_HISTORY THEN Tail(pushed) ELSE pushed
        rolled == IF epoch # vs.epoch
                  THEN [vs EXCEPT !.epoch_credits = kept, !.epoch = epoch,
                                  !.last_epoch_credits = vs.credits]
                  ELSE vs
    IN  [rolled EXCEPT !.credits = @ + 1]

\* slot_hashes.iter().any(|(slot, hash)| vote.slot == *slot && vote.hash == *hash)
has_witness(vote, slot_hashes) ==
    \E i \in 1..Len(slot_hashes) :
        slot_hashes[i][1] = vote.slot /\ slot_hashes[i][2] = vote.hash

\* Mutant: a vote is dropped for want of a witness only.
vote_ignored_unwitnessed(vs, vote, slot_hashes) == ~has_witness(vote, slot_hashes)

\* Mutant: a vote for the slot at the back of the tower is not dropped.
vote_ignored_strict(vs, vote, slot_hashes) ==
    \/ Len(vs.votes) > 0 /\ vs.votes[Len(vs.votes)].slot > vote.slot
    \/ ~has_witness(vote, slot_hashes)

\* The vote is dropped: not later than the back of the tower, or no witness.
vote_ignored(vs, vote, slot_hashes) ==
    \/ Len(vs.votes) > 0 /\ vs.votes[Len(vs.votes)].slot >= vote.slot
    \/ ~has_witness(vote, slot_hashes)

\* Mutant: the tower is found full one vote early.
is_full_early(vs, kept) == Len(kept) >= MAX_LOCKOUT_HISTORY - 1

\* Mutant: the tower is found full before the expiration sweep.
is_full_before_sweep(vs, kept) == Len(vs.votes) = MAX_LOCKOUT_HISTORY

\* self.votes.len() == MAX_LOCKOUT_HISTORY, after pop_expired_votes
is_full(vs, kept) == Len(kept) = MAX_LOCKOUT_HISTORY

\* Mutant: the first root is kept.
pop_root_keep_first(vs, kept) ==
    [vs EXCEPT !.votes = Tail(kept),
               !.root_slot = IF vs.root_slot = None THEN Some(kept[1].slot) ELSE @]

\* Mutant: the root is taken from the back of the tower.
pop_root_back(vs, kept) ==
    [vs EXCEPT !.votes = SubSeq(kept, 1, Len(kept) - 1),
               !.root_slot = Some(kept[Len(kept)].slot)]

\* let vote = self.votes.pop_front().unwrap(); self.root_slot = Some(vote.slot)
pop_root(vs, kept) ==
    [vs EXCEPT !.votes = Tail(kept), !.root_slot = Some(kept[1].slot)]

\* Mutant: the new vote goes to the front of the tower.
push_vote_front(votes, vote) == <<vote>> \o votes

\* self.votes.push_back(vote)
push_vote(votes, vote) == Append(votes, vote)

process_vote(vs, vote, slot_hashes, epoch) ==
    IF vote_ignored(vs, vote, slot_hashes)
    THEN vs
    ELSE LET kept == pop_expired_votes(vs.votes, vote.slot)
             full == is_full(vs, kept)
             rooted == IF full
                       THEN increment_credits(pop_root(vs, kept), epoch)
                       ELSE [vs EXCEPT !.votes = kept]
         IN  [rooted EXCEPT !.votes = double_lockouts(push_vote(rooted.votes, new_lockout(vote)))]

\* Mutant: the votes from the last to the first.
RECURSIVE process_votes_last_first(_, _, _, _)
process_votes_last_first(vs, votes, slot_hashes, epoch) ==
    IF votes = << >>
    THEN vs
    ELSE process_vote(process_votes_last_first(vs, Tail(votes), slot_hashes, epoch),
                      Head(votes), slot_hashes, epoch)

\* VoteState::process_votes: the votes in order.
RECURSIVE process_votes(_, _, _, _)
process_votes(vs, votes, slot_hashes, epoch) ==
    IF votes = << >>
    THEN vs
    ELSE process_votes(process_vote(vs, Head(votes), slot_hashes, epoch),
                       Tail(votes), slot_hashes, epoch)

\* The votes process_votes' expiration sweeps pop (history only).
RECURSIVE swept_by(_, _, _, _)
swept_by(vs, votes, slot_hashes, epoch) ==
    IF votes = << >>
    THEN 0
    ELSE (IF vote_ignored(vs, Head(votes), slot_hashes)
          THEN 0
          ELSE Len(vs.votes) - Len(pop_expired_votes(vs.votes, Head(votes).slot)))
         + swept_by(process_vote(vs, Head(votes), slot_hashes, epoch),
                    Tail(votes), slot_hashes, epoch)

(***************************************************************************)
(* The vote program's instructions on one keyed account.  signer is the    *)
(* account's signer bit, others the keys of the other signers.             *)
(***************************************************************************)
InitialLamports == 2

\* Mutant: any signature authorizes.
is_authorized_any_signer(vs, signer, others) == signer \/ others # {}

\* vote_account.signer_key() == Some(authorized) or one of other_signers'.
is_authorized(vs, signer, others) ==
    \/ signer /\ VoteKey = vs.authorized_voter_pubkey
    \/ vs.authorized_voter_pubkey \in others

authorize_voter(acc, signer, others, authorized_voter_pubkey) ==
    IF ~is_authorized(acc.state, signer, others)
    THEN [account |-> acc, result |-> "MissingRequiredSignature"]
    ELSE [account |-> [acc EXCEPT !.state.authorized_voter_pubkey = authorized_voter_pubkey],
          result |-> "Ok"]

\* Balances are u64: LamportsBits bits here.  to_account.account.lamports +=
\* lamports past the largest balance panics where the build checks overflow,
\* the source already debited, and wraps around where it does not.
LamportsBits == 3
MaxLamports == 2 ^ LamportsBits - 1

withdraw(acc, signer, lamports, to_lamports, overflow_checks) ==
    CASE ~signer ->
            [account |-> acc, to |-> to_lamports, result |-> "MissingRequiredSignature"]
      [] signer /\ acc.lamports < lamports ->
            [account |-> acc, to |-> to_lamports, result |-> "InsufficientFunds"]
      [] OTHER ->
            LET debited == [acc EXCEPT !.lamports = @ - lamports] IN
            IF to_lamports + lamports > MaxLamports /\ overflow_checks
            THEN [account |-> debited, to |-> to_lamports, result |-> "Panic"]
            ELSE [account |-> debited,
                  to |-> (to_lamports + lamports) % (2 ^ LamportsBits), result |-> "Ok"]

initialize_account(acc, node_pubkey, commission) ==
    IF acc.state.authorized_voter_pubkey # DefaultKey
    THEN [account |-> acc, result |-> "AccountAlreadyInitialized"]
    ELSE [account |-> [acc EXCEPT !.state = new_vote_state(VoteKey, node_pubkey, commission)],
          result |-> "Ok"]

process_votes_ix(acc, slot_hashes, clock_epoch, signer, others, votes) ==
    CASE acc.state.authorized_voter_pubkey = DefaultKey ->
            [account |-> acc, result |-> "UninitializedAccount"]
      [] acc.state.authorized_voter_pubkey # DefaultKey
         /\ ~is_authorized(acc.state, signer, others) ->
            [account |-> acc, result |-> "MissingRequiredSignature"]
      [] OTHER ->
            [account |-> [acc EXCEPT !.state = process_votes(@, votes, slot_hashes, clock_epoch)],
             result |-> "Ok"]

\* Inputs of the instructions.
MaxVoteSlot == 3
Hashes == {"h", "g"}
ClockEpochs == {0, 1}
Commissions == {0, 127}
SignerSets == {{}, {OtherKey}}
NewVoters == {DefaultKey, VoteKey, OtherKey}
\* The recent (slot, hash) pairs: every slot below MaxVoteSlot, with hash "h".
RecentSlotHashes == [i \in 1..MaxVoteSlot |-> <<i - 1, "h">>]
Votes == [slot : 0..MaxVoteSlot, hash : Hashes]
\* The votes that expiration sweeps may pop in one run of instructions.
MaxSwept == 1
VoteLists ==
    {<<v>> : v \in Votes} \cup {<<v, w>> : v \in Votes, w \in {x \in Votes : x.hash = "h"}}

Initialize(commission) ==
    /\ LET r == initialize_account(account, NodeKey, commission) IN
       /\ account' = r.account
       /\ last' = [op |-> "initialize", result |-> r.result]
    /\ UNCHANGED <<dest, jumps, swept, cache_vars>>

Authorize(signer, others, new_voter) ==
    /\ LET r == authorize_voter(account, signer, others, new_voter) IN
       /\ account' = r.account
       /\ last' = [op |-> "authorize", result |-> r.result]
    /\ UNCHANGED <<dest, jumps, swept, cache_vars>>

Withdraw(signer, lamports) ==
    /\ \E overflow_checks \in BOOLEAN :
          LET r == withdraw(account, signer, lamports, dest, overflow_checks) IN
          /\ account' = r.account
          /\ dest' = r.to
          /\ last' = [op |-> "withdraw", result |-> r.result]
    /\ UNCHANGED <<jumps, swept, cache_vars>>

ProcessVotes(clock_epoch, signer, others, votes) ==
    /\ LET r == process_votes_ix(account, RecentSlotHashes, clock_epoch, signer, others, votes) IN
       /\ account' = r.account
       /\ last' = [op |-> "process_votes", result |-> r.result]
       /\ swept' = IF r.result = "Ok"
                   THEN swept + swept_by(account.state, votes, RecentSlotHashes, clock_epoch)
                   ELSE swept
       /\ swept' <= MaxSwept
    /\ UNCHANGED <<dest, jumps, cache_vars>>

VoteInit ==
    /\ account = [lamports |-> InitialLamports, state |-> DefaultVoteState]
    /\ dest = 0
    /\ last = [op |-> "none", result |-> "none"]
    /\ jumps = 0
    /\ swept = 0

CacheInit ==
    /\ by_epoch = EmptyMap
    /\ insertion_order = << >>
    /\ max_epoch = 0
    /\ poisoned = FALSE
    /\ th = [t \in Threads |-> IdleThread]
    /\ calls = 0

VoteNext ==
    \/ \E commission \in Commissions : Initialize(commission)
    \/ \E signer \in BOOLEAN, others \in SignerSets, new_voter \in NewVoters :
          Authorize(signer, others, new_voter)
    \/ \E signer \in BOOLEAN, lamports \in 1..InitialLamports : Withdraw(signer, lamports)
    \/ \E clock_epoch \in ClockEpochs, signer \in BOOLEAN, others \in SignerSets,
          votes \in VoteLists : ProcessVotes(clock_epoch, signer, others, votes)

VoteSpecInit == CacheInit /\ VoteInit

VoteSpec == VoteSpecInit /\ [][VoteNext]_vars

(***************************************************************************)
(* The tower alone: VoteState::process_vote called on a VoteState::new,    *)
(* as process_slot_vote_unchecked does, far enough to fill the tower.      *)
(***************************************************************************)
\* The highest slot voted for.
MaxSlot == 38
\* Accepted votes that skip slots, and by how much.
MaxJumps == 1
JumpDeltas == {2, 3, 6, 7}
TowerEpochs == {0, 1}

back_slot(vs) == IF Len(vs.votes) > 0 THEN vs.votes[Len(vs.votes)].slot ELSE -1

\* One call of process_vote with a witness list of one pair.
TowerVote(slot, hash, epoch, jump) ==
    /\ slot \in 0..MaxSlot
    /\ jumps + jump <= MaxJumps
    /\ LET vote == [slot |-> slot, hash |-> hash]
           slot_hashes == <<<<slot, "h">>>>
           ignored == vote_ignored(account.state, vote, slot_hashes)
       IN  /\ account' = [account EXCEPT
                             !.state = process_vote(@, vote, slot_hashes, epoch)]
           /\ swept' = swept + swept_by(account.state, <<vote>>, slot_hashes, epoch)
           /\ jumps' = IF ignored THEN jumps ELSE jumps + jump
           /\ last' = [op |-> "process_vote", result |-> "Ok"]
    /\ UNCHANGED <<dest, cache_vars>>

\* The next slot after the back of the tower.
NextSlotVote(epoch) == TowerVote(back_slot(account.state) + 1, "h", epoch, 0)
\* A later slot: slots were skipped.
JumpVote(delta, epoch) == TowerVote(back_slot(account.state) + delta, "h", epoch, 1)
\* A slot not after the back of the tower.
StaleVote(behind) ==
    /\ back_slot(account.state) - behind >= 0
    /\ TowerVote(back_slot(account.state) - behind, "h", account.state.epoch, 0)
\* A vote whose hash no witness has.
UnwitnessedVote == TowerVote(back_slot(account.state) + 1, "g", account.state.epoch, 0)

TowerInit ==
    /\ CacheInit
    /\ account = [lamports |-> InitialLamports,
                  state |-> new_vote_state(VoteKey, NodeKey, 0)]
    /\ dest = 0
    /\ last = [op |-> "none", result |-> "none"]
    /\ jumps = 0
    /\ swept = 0

TowerNext ==
    \/ \E epoch \in TowerEpochs : NextSlotVote(epoch)
    \/ \E delta \in JumpDeltas, epoch \in TowerEpochs : JumpVote(delta, epoch)
    \/ \E behind \in 0..1 : StaleVote(behind)
    \/ UnwitnessedVote

TowerSpec == TowerInit /\ [][TowerNext]_vars

(***************************************************************************)
(* The instructions on one account over a long run of votes: the Vote      *)
(* instruction for the slot after the back of the tower, witnessed, far    *)
(* enough to fill the tower and earn credits, with Initialize, Authorize   *)
(* and Withdraw in between.                                                *)
(***************************************************************************)
VoteNextSlot(clock_epoch, signer) ==
    /\ back_slot(account.state) + 1 <= MaxSlot
    /\ LET vote == [slot |-> back_slot(account.state) + 1, hash |-> "h"]
           slot_hashes == <<<<vote.slot, "h">>>>
           r == process_votes_ix(account, slot_hashes, clock_epoch, signer, {}, <<vote>>)
       IN  /\ account' = r.account
           /\ last' = [op |-> "process_votes", result |-> r.result]
           /\ swept' = IF r.result = "Ok"
                       THEN swept + swept_by(account.state, <<vote>>, slot_hashes, clock_epoch)
                       ELSE swept
    /\ UNCHANGED <<dest, jumps, cache_vars>>

AccountNext ==
    \/ Initialize(0)
    \/ \E signer \in BOOLEAN, new_voter \in {DefaultKey, VoteKey} :
          Authorize(signer, {}, new_voter)
    \/ \E signer \in BOOLEAN : Withdraw(signer, InitialLamports)
    \/ \E clock_epoch \in ClockEpochs, signer \in BOOLEAN : VoteNextSlot(clock_epoch, signer)

AccountSpec == VoteSpecInit /\ [][AccountNext]_vars

(***************************************************************************)
(* Credits over many epochs: process_vote for one slot after the other,    *)
(* far past a full tower, each vote earning a credit in the epoch its      *)
(* caller passes: the next epoch, or, for the first credits, the same      *)
(* epoch or the one before.                                                *)
(***************************************************************************)
MaxCreditSlot == 97
MaxEarlyCredits == 3

EpochVote(epoch) ==
    /\ back_slot(account.state) < MaxCreditSlot
    /\ LET vote == [slot |-> back_slot(account.state) + 1, hash |-> "h"]
           slot_hashes == <<<<vote.slot, "h">>>>
       IN  /\ account' = [account EXCEPT !.state = process_vote(@, vote, slot_hashes, epoch)]
           /\ last' = [op |-> "process_vote", result |-> "Ok"]
    /\ UNCHANGED <<dest, jumps, swept, cache_vars>>

NextEpochVote == EpochVote(account.state.epoch + 1)
SameEpochVote ==
    /\ account.state.credits < MaxEarlyCredits
    /\ EpochVote(account.state.epoch)
EarlierEpochVote ==
    /\ account.state.credits < MaxEarlyCredits
    /\ account.state.epoch > 0
    /\ EpochVote(account.state.epoch - 1)

CreditsNext ==
    \/ NextEpochVote
    \/ SameEpochVote
    \/ EarlierEpochVote

CreditsSpec == TowerInit /\ [][CreditsNext]_vars

(***************************************************************************)
(* withdraw alone, from every pair of balances of the vote account and of  *)
(* the destination.                                                        *)
(***************************************************************************)
WithdrawInit ==
    /\ CacheInit
    /\ account \in [lamports : 0..MaxLamports, state : {new_vote_state(VoteKey, NodeKey, 0)}]
    /\ dest \in 0..MaxLamports
    /\ last = [op |-> "none", result |-> "none"]
    /\ jumps = 0
    /\ swept = 0

WithdrawNext ==
    \E signer \in BOOLEAN, lamports \in 0..MaxLamports : Withdraw(signer, lamports)

WithdrawSpec == WithdrawInit /\ [][WithdrawNext]_vars

(***************************************************************************)
(* next_leader_slot called by one thread on a cache fresh from new, over   *)
(* every node, starting slot, bank and blocktree below.                    *)
(***************************************************************************)
\* A key with no stake: it is in no schedule.
Unstaked == "R"
LeaderPubkeys == Nodes \cup {Unstaked}
\* Starting slots 0..MaxCurrentSlot.
MaxCurrentSlot == 7
\* The slots with a meta: in the first run of P (1, 2) and inside and at the
\* end of its second (7, 8); a meta's received count is 0 or 1.
MetaSlots == {1, 2, 7, 8}
LeaderBlockStores == {None} \cup {Some(m) : m \in [MetaSlots -> {0, 1}]}
Caller == "t1"

LeaderCall(pubkey, current_slot, bank, blocktree) ==
    /\ th[Caller].pc = "idle"
    /\ NextLeaderSlot(Caller, pubkey, current_slot, bank, blocktree)

LeaderNext ==
    \/ \E pubkey \in LeaderPubkeys, current_slot \in 0..MaxCurrentSlot, bank \in Banks,
          blocktree \in LeaderBlockStores :
          LeaderCall(pubkey, current_slot, bank, blocktree)
    \/ NextLeaderSlotGet(Caller)
    \/ Compute(Caller)
    \/ Insert(Caller)

Init ==
    /\ \E root_bank \in Banks :
          LET n == new_cache(root_bank) IN
          /\ by_epoch = n.cache.schedules
          /\ insertion_order = n.cache.order
          /\ max_epoch = n.max_epoch
    /\ poisoned = FALSE
    /\ th = [t \in Threads |-> IdleThread]
    /\ calls = 0
    /\ VoteInit

Next ==
    \/ \E t \in Threads, slot \in QuerySlots : SlotLeaderAtNoBank(t, slot)
    \/ \E t \in Threads, slot \in QuerySlots, bank \in Banks : SlotLeaderAtLookup(t, slot, bank)
    \/ \E t \in Threads : SlotLeaderAtCheck(t)
    \/ \E t \in Threads : Compute(t)
    \/ \E t \in Threads : Insert(t)
    \/ \E t \in Threads, bank \in Banks : SetRoot(t, bank)
    \/ \E t \in Threads, pubkey \in Nodes, current_slot \in CurrentSlots, bank \in LeaderBanks,
          blocktree \in BlockStores :
          NextLeaderSlot(t, pubkey, current_slot, bank, blocktree)
    \/ \E t \in Threads : NextLeaderSlotGet(t)

Spec == Init /\ [][Next]_vars

LeaderSpec == Init /\ [][LeaderNext]_vars

\* A thread inside a call is scheduled until the call returns.
LeaderFairSpec ==
    LeaderSpec /\ WF_vars(NextLeaderSlotGet(Caller) \/ Compute(Caller) \/ Insert(Caller))

(***************************************************************************)
(* Threads calling slot_leader_at and set_root on one cache, lock by lock. *)
(***************************************************************************)
LockSlots == {0, 20}
LockBanks == {b \in Banks : b.slot \in {0, 21}}

\* The steps of thread t inside a call.
LockStep(t) ==
    \/ ReadCachedSchedules(t)
    \/ LockedLookup(t)
    \/ ReadMaxEpoch(t)
    \/ LockedCheck(t)
    \/ Compute(t)
    \/ WriteCachedSchedules(t)
    \/ LockedInsert(t)
    \/ WriteMaxEpoch(t)
    \/ LockedSetRoot(t)

LockNext ==
    \/ \E t \in Threads, slot \in LockSlots : CallSlotLeaderAtNoBank(t, slot)
    \/ \E t \in Threads, slot \in LockSlots, bank \in LockBanks : CallSlotLeaderAt(t, slot, bank)
    \/ \E t \in Threads, bank \in LockBanks : CallSetRoot(t, bank)
    \/ \E t \in Threads : LockStep(t)

LockSpec == Init /\ [][LockNext]_vars

\* Every thread inside a call is scheduled again.
LockFairSpec == LockSpec /\ \A t \in Threads : WF_vars(LockStep(t))

(***************************************************************************)
(* Properties of the cache (Spec).                                         *)
(***************************************************************************)
Occurrences(q, e) == Cardinality({i \in 1..Len(q) : q[i] = e})
QueueSet(q) == {q[i] : i \in 1..Len(q)}
Done(t, op) == th[t].pc = "done" /\ th[t].op = op
\* Thread t alone moves in the step, and ends a call in it.
Returns(t) == th'[t] # th[t] /\ th'[t].pc = "done"

\* C1: in every reachable state of the cache by_epoch holds at most
\* MAX_SCHEDULES schedules, its keys are exactly the epochs in insertion_order,
\* and no epoch is twice in insertion_order.
C1_CacheBounded ==
    /\ Cardinality(DOMAIN by_epoch) <= MAX_SCHEDULES
    /\ DOMAIN by_epoch = QueueSet(insertion_order)
    /\ \A e \in QueueSet(insertion_order) : Occurrences(insertion_order, e) = 1

\* A set_root that raised the horizon has inserted into the full cache: the
\* new horizon's epoch is the back of the queue, the front was evicted.
C1_Witness ==
    /\ Len(insertion_order) = MAX_SCHEDULES
    /\ insertion_order[Len(insertion_order)] = max_epoch
    /\ \E t \in Threads : Done(t, "set_root") /\ th[t].raised /\ th[t].computed

\* C3, as claimed: every cached epoch is within the horizon, and a
\* slot_leader_at without a bank for a slot of an epoch beyond the horizon has
\* returned None (stated for the states in which no set_root has aborted).
C3_AllWithinHorizon ==
    ~poisoned =>
        /\ \A e \in DOMAIN by_epoch : e <= max_epoch
        /\ \A t \in Threads :
              Done(t, "slot_leader_at_none") /\ get_epoch(th[t].slot) > max_epoch =>
                  th[t].ret = None

\* C3, amended: while no set_root has aborted, an epoch beyond max_epoch enters
\* by_epoch only in an insertion by next_leader_slot; slot_leader_at and
\* set_root insert epochs within the horizon only. A slot_leader_at without a
\* bank computes nothing and returns what the cache holds for the slot, None
\* for an epoch that is not cached.
C3_OnlyNextLeaderSlotBeyond ==
    [][/\ ~poisoned =>
            \A e \in DOMAIN by_epoch' \ DOMAIN by_epoch :
                \/ e <= max_epoch
                \/ \E t \in Threads : /\ th[t].pc = "insert"
                                      /\ th[t].op = "next_leader_slot"
                                      /\ th[t].epoch = e
                                      /\ th'[t] # th[t]
       /\ \A t \in Threads :
            Returns(t) /\ th'[t].op = "slot_leader_at_none" =>
                /\ by_epoch' = by_epoch
                /\ insertion_order' = insertion_order
                /\ ~th'[t].computed
                /\ get_epoch(th'[t].slot) \notin DOMAIN by_epoch => th'[t].ret = None
                /\ get_epoch(th'[t].slot) \in DOMAIN by_epoch =>
                      th'[t].ret =
                          Some(by_epoch[get_epoch(th'[t].slot)][get_slot_index(th'[t].slot) + 1])]_vars

\* next_leader_slot has cached an epoch beyond the horizon, and slot_leader_at
\* with a bank has inserted an epoch it computed.
C3_Witness ==
    /\ ~poisoned
    /\ \E e \in DOMAIN by_epoch : e > max_epoch
    /\ \E t \in Threads : Done(t, "next_leader_slot") /\ th[t].computed
    /\ \E t \in Threads : /\ Done(t, "slot_leader_at")
                          /\ th[t].computed
                          /\ get_epoch(th[t].slot) \in DOMAIN by_epoch

\* C4: slot_leader_at(slot, Some(bank)) that reads a horizon below the slot's
\* epoch returns None in that step and leaves the cache as it is, whether or
\* not the epoch is cached or the bank has its stakes; one that reads a horizon
\* at or above the epoch, with the stakes in the bank, returns some node.
C4_HorizonGate ==
    [][\A t \in Threads :
          Returns(t) /\ th'[t].op = "slot_leader_at" =>
              LET epoch == get_epoch(th'[t].slot)
                  seen == Unwrap(th'[t].seen_max)
              IN  /\ epoch > seen =>
                        /\ th'[t].ret = None
                        /\ seen = max_epoch
                        /\ by_epoch' = by_epoch
                        /\ insertion_order' = insertion_order
                  /\ epoch <= seen /\ epoch_vote_accounts(Unwrap(th'[t].bank), epoch) =>
                        IsSome(th'[t].ret)]_vars

\* A query was refused for an epoch beyond the horizon that is cached and
\* whose stakes its bank has.
C4_Witness ==
    \E t \in Threads :
        /\ Done(t, "slot_leader_at")
        /\ th[t].ret = None
        /\ get_epoch(th[t].slot) > Unwrap(th[t].seen_max)
        /\ get_epoch(th[t].slot) \in DOMAIN by_epoch
        /\ epoch_vote_accounts(Unwrap(th[t].bank), get_epoch(th[t].slot))

\* C5: no step of a call that goes on lowers max_epoch: the horizon falls only
\* in the step in which set_root panics, and a set_root whose stakers epoch is
\* below the horizon panics.
C5_HorizonMonotone ==
    [][/\ max_epoch' < max_epoch =>
            /\ poisoned'
            /\ \E t \in Threads : th'[t].pc = "panicked" /\ th[t].pc # "panicked"
       /\ \A t \in Threads :
            /\ th[t].pc \in {"idle", "done"}
            /\ th'[t] # th[t]
            /\ th'[t].op = "set_root"
            /\ get_stakers_epoch(th'[t].slot) < max_epoch
            => th'[t].pc = "panicked"]_vars

\* One set_root raised the horizon and returned, another, with an older bank,
\* panicked.
C5_Witness ==
    \E t, u \in Threads :
        /\ Done(t, "set_root") /\ th[t].raised
        /\ th[u].pc = "panicked" /\ th[u].op = "set_root"
        /\ IsSome(th[u].seen_max)

\* C7: when two threads have both computed the schedule of the same epoch in
\* slot_leader_at and returned, the epoch is in by_epoch and once in
\* insertion_order.
C7_InsertedOnce ==
    \A t, u \in Threads :
        /\ t # u
        /\ Done(t, "slot_leader_at") /\ th[t].computed /\ IsSome(th[t].ret)
        /\ Done(u, "slot_leader_at") /\ th[u].computed /\ IsSome(th[u].ret)
        /\ get_epoch(th[t].slot) = get_epoch(th[u].slot)
        => /\ get_epoch(th[t].slot) \in DOMAIN by_epoch
           /\ Occurrences(insertion_order, get_epoch(th[t].slot)) = 1

\* Two threads computed the same epoch and both returned a leader.
C7_Witness ==
    \E t, u \in Threads :
        /\ t # u
        /\ Done(t, "slot_leader_at") /\ th[t].computed /\ IsSome(th[t].ret)
        /\ Done(u, "slot_leader_at") /\ th[u].computed /\ IsSome(th[u].ret)
        /\ get_epoch(th[t].slot) = get_epoch(th[u].slot)

\* C8: a slot_leader_at(s, Some(bank)) that returns a node returns the node at
\* the slot's index in the builder's schedule for the slot's epoch.
C8_SameAsBuilder ==
    \A t \in Threads :
        Done(t, "slot_leader_at") /\ IsSome(th[t].ret) =>
            /\ get_epoch(th[t].slot) <= Unwrap(th[t].seen_max)
            /\ Unwrap(th[t].ret) =
                  LeaderScheduleFor(get_epoch(th[t].slot))[get_slot_index(th[t].slot) + 1]

\* One thread answered from the cache, the other from its own computation,
\* for the last slot of an epoch.
C8_Witness ==
    \E t, u \in Threads :
        /\ Done(t, "slot_leader_at") /\ IsSome(th[t].ret) /\ ~th[t].computed
        /\ Done(u, "slot_leader_at") /\ IsSome(th[u].ret) /\ th[u].computed
        /\ get_slot_index(th[t].slot) = SlotsPerEpoch - 1

\* C9, as claimed: after new, max_epoch is the root bank's stakers epoch and
\* every epoch of 0..max_epoch is cached, max_epoch + 1 schedules in all, with
\* a leader for the first and the last slot of each.
C9_NewCachesAll ==
    calls = 0 =>
        /\ \E root_bank \in Banks : max_epoch = get_stakers_epoch(root_bank.slot)
        /\ DOMAIN by_epoch = 0..max_epoch
        /\ Cardinality(DOMAIN by_epoch) = max_epoch + 1
        /\ \A e \in 0..max_epoch :
              /\ IsSome(slot_leader_at_no_compute(by_epoch, get_first_slot_in_epoch(e)))
              /\ IsSome(slot_leader_at_no_compute(by_epoch, get_last_slot_in_epoch(e)))

\* C10: a set_root that raised the horizon returns with the new horizon's epoch
\* cached; a set_root that finds the horizon at its stakers epoch returns in
\* that step, and the cache is as it was.
C10_SetRootComputes ==
    [][\A t \in Threads :
          /\ Returns(t) /\ th'[t].op = "set_root" /\ th'[t].raised =>
                get_stakers_epoch(th'[t].slot) \in DOMAIN by_epoch'
          /\ /\ th[t].pc \in {"idle", "done"}
             /\ th'[t] # th[t]
             /\ th'[t].op = "set_root"
             /\ ~poisoned
             /\ get_stakers_epoch(th'[t].slot) = max_epoch
             => /\ th'[t].pc = "done"
                /\ ~th'[t].computed
                /\ by_epoch' = by_epoch
                /\ insertion_order' = insertion_order]_vars

\* A set_root raised the horizon and returned, its epoch cached; another found
\* the horizon where its bank puts it and returned.
C10_Witness ==
    \E t, u \in Threads :
        /\ Done(t, "set_root") /\ th[t].raised
        /\ get_stakers_epoch(th[t].slot) \in DOMAIN by_epoch
        /\ Done(u, "set_root") /\ ~th[u].raised /\ ~th[u].computed
        /\ get_stakers_epoch(th[u].slot) = max_epoch

\* C11: by_epoch and insertion_order change only when a thread inserts an
\* epoch that is not cached: the epoch goes to the back of the queue, and when
\* the cache held MAX_SCHEDULES schedules the front of the queue, the earliest
\* inserted, leaves the queue and the map. Every other step, a lookup that
\* hits among them, leaves the queue and the map as they are.
C11_EvictionFifo ==
    [][insertion_order' # insertion_order \/ by_epoch' # by_epoch =>
          \E t \in Threads :
              LET e == th[t].epoch
                  pushed == Append(insertion_order, e)
              IN  /\ th[t].pc = "insert"
                  /\ th'[t] # th[t]
                  /\ e \notin DOMAIN by_epoch
                  /\ IF Len(insertion_order) >= MAX_SCHEDULES
                     THEN /\ insertion_order' = Tail(pushed)
                          /\ DOMAIN by_epoch' =
                                (DOMAIN by_epoch \cup {e}) \ {Head(insertion_order)}
                     ELSE /\ insertion_order' = pushed
                          /\ DOMAIN by_epoch' = DOMAIN by_epoch \cup {e}
                  /\ \A k \in DOMAIN by_epoch' \ {e} : by_epoch'[k] = by_epoch[k]]_vars

\* A slot_leader_at has inserted its epoch into the full cache, the front was
\* evicted, and another slot_leader_at was answered from the cache.
C11_Witness ==
    /\ Len(insertion_order) = MAX_SCHEDULES
    /\ Head(insertion_order) # 0
    /\ \E t, u \in Threads :
          /\ Done(t, "slot_leader_at") /\ th[t].computed /\ IsSome(th[t].ret)
          /\ insertion_order[MAX_SCHEDULES] = get_epoch(th[t].slot)
          /\ Done(u, "slot_leader_at") /\ ~th[u].computed /\ IsSome(th[u].ret)

\* C12: when the bank of a call has no stakes for the epoch the call is to
\* compute, the call returns in that step and by_epoch and insertion_order stay
\* as they are; slot_leader_at returns None, and next_leader_slot returns no
\* slot of that epoch: None when it has found no leader slot before the
\* epoch, the run it found before the epoch otherwise.
C12_NoScheduleNoCaching ==
    [][\A t \in Threads :
          /\ th[t].pc = "compute"
          /\ th'[t] # th[t]
          /\ ~epoch_vote_accounts(Unwrap(th[t].bank), th[t].epoch)
          => /\ th'[t].pc = "done"
             /\ by_epoch' = by_epoch
             /\ insertion_order' = insertion_order
             /\ th[t].op # "next_leader_slot" => th'[t].ret = None
             /\ th[t].op = "next_leader_slot" =>
                   IF IsSome(th[t].first_slot)
                   THEN /\ IsSome(th'[t].ret)
                        /\ Unwrap(th'[t].ret)[1] = Unwrap(th[t].first_slot)
                        /\ Unwrap(th'[t].ret)[2] < get_first_slot_in_epoch(th[t].epoch)
                   ELSE th'[t].ret = None]_vars

\* A slot_leader_at within the horizon got None from a bank without the
\* epoch's stakes, and a next_leader_slot returned a run cut short by the
\* first epoch its bank has no stakes for; neither epoch is cached.
C12_Witness ==
    \E t, u \in Threads :
        /\ Done(t, "slot_leader_at") /\ th[t].computed /\ th[t].ret = None
        /\ get_epoch(th[t].slot) <= Unwrap(th[t].seen_max)
        /\ get_epoch(th[t].slot) \notin DOMAIN by_epoch
        /\ Done(u, "next_leader_slot") /\ th[u].computed /\ IsSome(th[u].ret)
        /\ LET next == Unwrap(th[u].ret)[2] + 1 IN
              /\ slot_leader(next) = th[u].pubkey
              /\ get_epoch(next) \notin DOMAIN by_epoch
              /\ ~epoch_vote_accounts(Unwrap(th[u].bank), get_epoch(next))

\* C33, as claimed: a set_root that panics on the assertion leaves max_epoch
\* as it was.
C33_AbortKeepsHorizon ==
    [][\A t \in Threads :
          /\ th[t].pc \in {"idle", "done"}
          /\ th'[t].pc = "panicked"
          /\ th'[t].op = "set_root"
          /\ ~poisoned
          => max_epoch' = max_epoch]_vars

\* C35: slot_leader_at(slot, None) returns in one step that leaves by_epoch,
\* insertion_order and max_epoch as they are and runs no builder; it returns
\* the entry at the slot's index of the cached schedule of the slot's epoch,
\* and none when that epoch is not cached, within the horizon or not.
C35_NoBankLookupIsPure ==
    [][\A t \in Threads :
          th'[t] # th[t] /\ th'[t].op = "slot_leader_at_none" =>
              LET epoch == th'[t].slot \div SlotsPerEpoch
                  index == th'[t].slot % SlotsPerEpoch
              IN  /\ th'[t].pc = "done"
                  /\ ~th'[t].computed
                  /\ by_epoch' = by_epoch
                  /\ insertion_order' = insertion_order
                  /\ max_epoch' = max_epoch
                  /\ th'[t].ret = IF epoch \in DOMAIN by_epoch
                                  THEN Some(by_epoch[epoch][index + 1])
                                  ELSE None]_vars

\* One lookup without a bank returned the second leader of a cached epoch,
\* another returned none for an epoch within the horizon that is not cached.
C35_Witness ==
    \E t, u \in Threads :
        /\ Done(t, "slot_leader_at_none") /\ Done(u, "slot_leader_at_none")
        /\ th[t].slot % SlotsPerEpoch = 1
        /\ th[t].slot \div SlotsPerEpoch \in DOMAIN by_epoch
        /\ th[t].ret = Some(by_epoch[th[t].slot \div SlotsPerEpoch][2])
        /\ th[u].slot \div SlotsPerEpoch <= max_epoch
        /\ th[u].slot \div SlotsPerEpoch \notin DOMAIN by_epoch
        /\ th[u].ret = None

(***************************************************************************)
(* Properties of next_leader_slot (LeaderSpec, LeaderFairSpec).  The       *)
(* leader of a slot is the builder's, slot_leader; the blocktree is the    *)
(* one handed to the call.                                                 *)
(***************************************************************************)
Leads(pubkey, slot) == slot_leader(slot) = pubkey
Received(blocktree, slot) ==
    /\ blocktree # None
    /\ slot \in DOMAIN blocktree[1]
    /\ blocktree[1][slot] > 0
Eligible(r, slot) == Leads(r.pubkey, slot) /\ ~Received(r.blocktree, slot)
First(r) == r.ret[1][1]
Last(r) == r.ret[1][2]
Found(t) == Done(t, "next_leader_slot") /\ th[t].ret # None

\* C13: when next_leader_slot returns (first, last), first is after
\* current_slot and at most last, node leads first and the blocktree does not
\* report first as received, and no slot between current_slot and first is
\* such a slot; a slot whose meta has received = 0 counts as not received.
C13_FirstIsNextEligible ==
    \A t \in Threads :
        Found(t) =>
            /\ First(th[t]) > th[t].slot
            /\ First(th[t]) <= Last(th[t])
            /\ Eligible(th[t], First(th[t]))
            /\ \A s \in (th[t].slot + 1)..(First(th[t]) - 1) : ~Eligible(th[t], s)

\* The first slot returned has a meta with received = 0, and a slot the node
\* leads between current_slot and first was skipped as received.
C13_Witness ==
    \E t \in Threads :
        /\ Found(t)
        /\ th[t].blocktree # None
        /\ meta(Unwrap(th[t].blocktree), First(th[t])) = Some(0)
        /\ \E s \in (th[t].slot + 1)..(First(th[t]) - 1) :
              Leads(th[t].pubkey, s) /\ Received(th[t].blocktree, s)

\* C14, as claimed: no slot of the returned range [first, last] is reported
\* received by the blocktree, and node leads every slot of the range.
C14_NoneOfRangeReceived ==
    \A t \in Threads :
        Found(t) =>
            \A s \in First(th[t])..Last(th[t]) :
                Leads(th[t].pubkey, s) /\ ~Received(th[t].blocktree, s)

\* C14, amended: node leads every slot of the returned range, and neither
\* first nor last is reported received; a slot strictly between them may be.
C14_EndsOfRangeNotReceived ==
    \A t \in Threads :
        Found(t) =>
            /\ \A s \in First(th[t])..Last(th[t]) : Leads(th[t].pubkey, s)
            /\ ~Received(th[t].blocktree, First(th[t]))
            /\ ~Received(th[t].blocktree, Last(th[t]))

\* A range answered from the cache alone has a received slot inside it.
C14_Witness ==
    \E t \in Threads :
        /\ Found(t)
        /\ ~th[t].computed
        /\ \E s \in (First(th[t]) + 1)..(Last(th[t]) - 1) : Received(th[t].blocktree, s)

\* The first slot from `from` on that pubkey does not lead (a leader's turn is
\* three slots).
FirstNotLed(pubkey, from) ==
    CHOOSE s \in from..(from + 3) :
        ~Leads(pubkey, s) /\ \A k \in from..(s - 1) : Leads(pubkey, k)

\* C15: in the step in which next_leader_slot returns (first, last), the scan
\* has stopped at a limit that is the first slot after first that node does
\* not lead, or before it the first slot of an epoch whose schedule could not
\* be had; last is below the limit, is not received, and every slot between
\* last and the limit is received. A received slot below last has not ended
\* the run.
C15_RunSurvivesReceivedSlot ==
    [][\A t \in Threads :
          Returns(t) /\ th'[t].op = "next_leader_slot" /\ th'[t].ret # None =>
              LET r == th'[t]
                  stop == FirstNotLed(r.pubkey, First(r) + 1)
                  limit == IF th[t].pc = "compute"
                           THEN get_first_slot_in_epoch(th[t].epoch)
                           ELSE stop
              IN  /\ limit <= stop
                  /\ First(r) <= Last(r)
                  /\ Last(r) < limit
                  /\ ~Received(r.blocktree, Last(r))
                  /\ \A s \in (Last(r) + 1)..(limit - 1) : Received(r.blocktree, s)]_vars

\* A range whose schedules the call computed has a received slot inside it.
C15_Witness ==
    \E t \in Threads :
        /\ Found(t)
        /\ th[t].computed
        /\ \E s \in (First(th[t]) + 1)..(Last(th[t]) - 1) : Received(th[t].blocktree, s)

\* C16: between epochs the slot next_leader_slot is to examine next is the slot
\* at the index it holds in the epoch it holds; and a returned run is cut before
\* a slot that node leads and that is not received only where that slot is the
\* first of an epoch that is not cached and whose stakes the bank has not: a run
\* that goes on into an epoch whose schedule can be had is returned whole.
C16_RunCrossesEpochs ==
    \A t \in Threads :
        /\ th[t].op = "next_leader_slot" /\ th[t].pc \in {"nls_get", "compute", "insert"} =>
              th[t].current_slot + 1 = get_first_slot_in_epoch(th[t].epoch) + th[t].idx
        /\ Found(t) /\ Eligible(th[t], Last(th[t]) + 1) =>
              /\ get_slot_index(Last(th[t]) + 1) = 0
              /\ get_epoch(Last(th[t]) + 1) \notin DOMAIN by_epoch
              /\ ~epoch_vote_accounts(Unwrap(th[t].bank), get_epoch(Last(th[t]) + 1))

\* A returned run starts at the last slot of an epoch and ends in the next
\* epoch, whose schedule the call computed.
C16_Witness ==
    \E t \in Threads :
        /\ Found(t)
        /\ th[t].computed
        /\ get_slot_index(First(th[t])) = SlotsPerEpoch - 1
        /\ get_epoch(Last(th[t])) = get_epoch(First(th[t])) + 1
        /\ get_epoch(Last(th[t])) \in DOMAIN by_epoch

\* The stakers epoch of the newest bank: no epoch after it is ever cached or
\* has its stakes in a bank.
LastStakedEpoch ==
    CHOOSE e \in {get_stakers_epoch(b.slot) : b \in Banks} :
        \A b \in Banks : get_stakers_epoch(b.slot) <= e
\* The call's bank has no stakes for the epoch and the epoch is not cached.
NoSchedule(r, epoch) ==
    epoch \notin DOMAIN by_epoch /\ ~epoch_vote_accounts(Unwrap(r.bank), epoch)

\* C17, as claimed: next_leader_slot returns no slot of an epoch beyond
\* max_epoch, and returns None when node leads no eligible slot after
\* current_slot in the epochs up to max_epoch.
C17_StopsAtHorizon ==
    \A t \in Threads :
        Done(t, "next_leader_slot") =>
            /\ th[t].ret # None => get_epoch(Last(th[t])) <= max_epoch
            /\ (\A s \in (th[t].slot + 1)..get_last_slot_in_epoch(max_epoch) :
                    ~Eligible(th[t], s))
               => th[t].ret = None

\* C17, amended: next_leader_slot stops at the first epoch that is not cached
\* and whose stakes its bank has not, wherever max_epoch is: every slot of a
\* returned pair is in an epoch that is cached or whose stakes the bank has,
\* and None is returned only when node leads no eligible slot between
\* current_slot and such an epoch.
C17_StopsAtNoSchedule ==
    \A t \in Threads :
        Done(t, "next_leader_slot") =>
            IF th[t].ret # None
            THEN \A s \in First(th[t])..Last(th[t]) : ~NoSchedule(th[t], get_epoch(s))
            ELSE \E e \in get_epoch(th[t].slot + 1)..(LastStakedEpoch + 1) :
                    /\ NoSchedule(th[t], e)
                    /\ \A s \in (th[t].slot + 1)..(get_first_slot_in_epoch(e) - 1) :
                          ~Eligible(th[t], s)

\* A returned pair ends in an epoch beyond max_epoch, and the call computed
\* and cached that epoch's schedule.
C17_Witness ==
    \E t \in Threads :
        /\ Found(t)
        /\ th[t].computed
        /\ get_epoch(Last(th[t])) > max_epoch
        /\ get_epoch(Last(th[t])) \in DOMAIN by_epoch

\* C18: a next_leader_slot that is under way returns; and it has returned
\* None when node leads no eligible slot after current_slot in any epoch that
\* has stakes (a key in no schedule), or when the slot after current_slot is
\* in an epoch that is not cached and whose stakes the bank has not.
C18_Terminates ==
    /\ \A t \in Threads :
          (th[t].op = "next_leader_slot" /\ th[t].pc \in {"nls_get", "compute", "insert"})
              ~> (th[t].op = "next_leader_slot" /\ th[t].pc = "done")
    /\ [](\A t \in Threads :
             /\ Done(t, "next_leader_slot")
             /\ \/ \A s \in (th[t].slot + 1)..get_last_slot_in_epoch(LastStakedEpoch) :
                       ~Eligible(th[t], s)
                \/ NoSchedule(th[t], get_epoch(th[t].slot + 1))
             => th[t].ret = None)

\* The call for a key in no schedule walked every epoch up to the last one
\* with stakes, computed it, and returned None.
C18_Witness ==
    \E t \in Threads :
        /\ Done(t, "next_leader_slot")
        /\ th[t].pubkey = Unstaked
        /\ th[t].computed
        /\ th[t].ret = None
        /\ max_epoch < LastStakedEpoch
        /\ LastStakedEpoch \in DOMAIN by_epoch

\* Thread t is inside a call: it has neither returned nor panicked.
InCall(t) == th[t].pc \notin {"idle", "done", "panicked"}
Holds(t, lock) == \E g \in th[t].held : g.lock = lock

\* C34: no thread holds a guard on cached_schedules and a guard on max_epoch
\* at once, and the thread that runs the schedule builder holds none; under
\* fair scheduling every call of slot_leader_at and set_root ends, by returning
\* or, on the failed assertion of set_root and on the lock it poisons, by
\* panicking: no call waits for ever.
C34_LocksApartCallsEnd ==
    /\ [](\A t \in Threads :
             /\ ~(Holds(t, "cached_schedules") /\ Holds(t, "max_epoch"))
             /\ th[t].pc = "compute" => th[t].held = {}
             /\ ~InCall(t) => th[t].held = {}
             /\ th[t].pc = "panicked" => poisoned)
    /\ \A t \in Threads : InCall(t) ~> th[t].pc \in {"done", "panicked"}

\* A set_root that raised the horizon has computed, inserted and returned
\* while the other thread, inside slot_leader_at, holds the write guard on
\* cached_schedules to insert what it built.
C34_Witness ==
    \E t, u \in Threads :
        /\ Done(u, "set_root") /\ th[u].computed /\ th[u].raised
        /\ th[t].op = "slot_leader_at" /\ th[t].pc = "locked_insert"
        /\ th[t].held = {Guard("cached_schedules", "write")}
        /\ ~poisoned

(***************************************************************************)
(* Properties of the tower (TowerSpec) and of the vote account (VoteSpec). *)
(***************************************************************************)
Tower == account.state.votes

\* C2, as claimed: the vote at position i from the front (from 0) has a
\* confirmation count of at most |votes| - i.
C2_CountWithinDepth ==
    \A i \in 1..Len(Tower) : Tower[i].confirmation_count <= Len(Tower) - (i - 1)

\* C2, amended: the bound holds as long as no expiration sweep has popped a
\* vote.
C2_CountWithinDepthUnswept ==
    swept = 0 => C2_CountWithinDepth

\* The tower is full and has overflowed, votes skipped slots, and no vote
\* expired.
C2_Witness ==
    /\ swept = 0
    /\ jumps > 0
    /\ Len(Tower) = MAX_LOCKOUT_HISTORY
    /\ IsSome(account.state.root_slot)

\* The votes tried on a VoteState: for slot 0, for the slot at the back of its
\* tower and for the next, with either hash; and the witness lists tried with
\* a vote.
ProbeVotes(vs) ==
    [slot : {0, back_slot(vs) + 1} \cup ({back_slot(vs)} \cap Nat), hash : Hashes]
ProbeWitnesses(vote) ==
    {<< >>,
     <<<<vote.slot, "h">>>>,
     <<<<vote.slot + 1, vote.hash>>, <<vote.slot, "g">>>>}
\* The claim's condition on a vote, from the tower and the witnesses.
Regresses(vs, vote) ==
    vs.votes # << >> /\ vs.votes[Len(vs.votes)].slot >= vote.slot
Unwitnessed(vote, slot_hashes) ==
    \A i \in DOMAIN slot_hashes : slot_hashes[i] # <<vote.slot, vote.hash>>

\* C19: on every VoteState the tower reaches, process_vote with a vote whose
\* slot is not after the back of a non-empty tower, or whose (slot, hash) no
\* witness equals, returns the VoteState as it was, in a new epoch too; and
\* ProcessVotes, rightly signed, of two such votes returns Ok and leaves the
\* account as it was.
C19_DroppedVoteChangesNothing ==
    \A vote \in ProbeVotes(account.state) :
        \A slot_hashes \in ProbeWitnesses(vote) :
            Regresses(account.state, vote) \/ Unwitnessed(vote, slot_hashes) =>
                LET epoch == account.state.epoch + 1 IN
                /\ process_vote(account.state, vote, slot_hashes, epoch) = account.state
                /\ process_votes_ix(account, slot_hashes, epoch, TRUE, {}, <<vote, vote>>)
                       = [account |-> account, result |-> "Ok"]

\* The tower is full and has a root and credits; a vote for the slot at its
\* back, witnessed, changes nothing, as does a vote for the next slot with a
\* hash no witness has, where the witnessed vote for the next slot is taken.
C19_Witness ==
    LET vs == account.state
        back == [slot |-> back_slot(vs), hash |-> "h"]
        next == [slot |-> back_slot(vs) + 1, hash |-> "h"]
        other == [slot |-> back_slot(vs) + 1, hash |-> "g"]
    IN  /\ Len(vs.votes) = MAX_LOCKOUT_HISTORY
        /\ vs.root_slot # None
        /\ vs.credits > 0
        /\ process_vote(vs, back, <<<<back.slot, "h">>>>, vs.epoch + 1) = vs
        /\ process_vote(vs, other, <<<<next.slot, "h">>>>, vs.epoch + 1) = vs
        /\ process_vote(vs, next, <<<<next.slot, "h">>>>, vs.epoch + 1) # vs

\* C21: the slots of the tower's votes are strictly increasing from front to
\* back, whatever votes were processed.
C21_SlotsIncreasing ==
    \A i \in 1..Len(Tower) - 1 : Tower[i].slot < Tower[i + 1].slot

\* A vote skipped slots and expired votes, which left a gap in the tower, and
\* the tower has grown again over it.
C21_Witness ==
    /\ swept > 1
    /\ jumps = MaxJumps
    /\ Len(Tower) > 16
    /\ \E i \in 1..Len(Tower) - 1 : Tower[i].slot + 1 < Tower[i + 1].slot

\* C22: when root_slot is set and the tower is not empty, root_slot is below
\* the slot of the front vote.
C22_RootBelowFront ==
    IsSome(account.state.root_slot) /\ Tower # << >> =>
        Unwrap(account.state.root_slot) < Tower[1].slot

\* The front was promoted to root, and a later vote expired votes of the
\* tower it left.
C22_Witness ==
    /\ IsSome(account.state.root_slot)
    /\ swept > 0
    /\ Len(Tower) < MAX_LOCKOUT_HISTORY
    /\ Tower # << >>

\* The signer sets tried with an instruction, and the claims' condition on
\* them: key signs as the vote account itself or as one of the other signers.
ProbeOthers == {{}, {OtherKey}, {DefaultKey}, {VoteKey}}
Signs(key, signer, others) == (signer /\ key = VoteKey) \/ key \in others
Voter == account.state.authorized_voter_pubkey

\* C23: on every account the instructions reach, ProcessVotes fails with
\* UninitializedAccount when authorized_voter is the default key, whoever
\* signs, and with MissingRequiredSignature when authorized_voter is another
\* key that signs neither as the account nor as a co-signer, both leaving the
\* account as it was; otherwise it returns Ok and stores the state with the
\* votes applied one after the other.
C23_ProcessVotesErrors ==
    \A signer \in BOOLEAN, others \in ProbeOthers, clock_epoch \in {account.state.epoch + 1},
       votes \in VoteLists :
        LET r == process_votes_ix(account, RecentSlotHashes, clock_epoch, signer, others, votes)
            first == process_vote(account.state, votes[1], RecentSlotHashes, clock_epoch)
            applied == IF Len(votes) = 1
                       THEN first
                       ELSE process_vote(first, votes[2], RecentSlotHashes, clock_epoch)
        IN  /\ Voter = DefaultKey =>
                  r = [account |-> account, result |-> "UninitializedAccount"]
            /\ Voter # DefaultKey /\ ~Signs(Voter, signer, others) =>
                  r = [account |-> account, result |-> "MissingRequiredSignature"]
            /\ Voter # DefaultKey /\ Signs(Voter, signer, others) =>
                  /\ r.result = "Ok"
                  /\ r.account.lamports = account.lamports
                  /\ r.account.state = applied

\* ProcessVotes of two votes, signed by the authorized co-signer, returned Ok
\* and both votes are in the tower, the first doubled by the second; ProcessVotes
\* has also failed both ways on the way here or does so from here.
C23_Witness ==
    /\ last = [op |-> "process_votes", result |-> "Ok"]
    /\ Voter = OtherKey
    /\ Len(Tower) = 2
    /\ Tower[1].confirmation_count = 2
    /\ process_votes_ix(account, RecentSlotHashes, 0, TRUE, {}, <<[slot |-> 2, hash |-> "h"]>>).result
           = "MissingRequiredSignature"

\* C24: on every account the instructions reach, Authorize returns Ok exactly
\* when authorized_voter signs, as the account or as a co-signer, and otherwise
\* MissingRequiredSignature with the account as it was; on Ok authorized_voter
\* is new_voter and every other field and the balance are as before, so that
\* authorizing the authorized key leaves the account identical.
C24_AuthorizeBySigner ==
    \A signer \in BOOLEAN, others \in ProbeOthers, new_voter \in NewVoters :
        LET r == authorize_voter(account, signer, others, new_voter) IN
        /\ r.result = IF Signs(Voter, signer, others) THEN "Ok" ELSE "MissingRequiredSignature"
        /\ r.result # "Ok" => r.account = account
        /\ r.result = "Ok" =>
              /\ r.account.state.authorized_voter_pubkey = new_voter
              /\ r.account.lamports = account.lamports
              /\ \A f \in DOMAIN account.state \ {"authorized_voter_pubkey"} :
                    r.account.state[f] = account.state[f]
              /\ new_voter = Voter => r.account = account

\* Authorize, signed, has handed the vote on to another key on an account
\* with votes and a changed balance; from here the account's own signature no
\* longer authorizes, and the new voter's does.
C24_Witness ==
    /\ last = [op |-> "authorize", result |-> "Ok"]
    /\ Voter = OtherKey
    /\ Tower # << >>
    /\ account.lamports < InitialLamports
    /\ authorize_voter(account, TRUE, {}, VoteKey).result = "MissingRequiredSignature"
    /\ authorize_voter(account, FALSE, {OtherKey}, OtherKey).account = account

\* Authorize of new_voter on the account, where it succeeds, transfers the
\* vote: of the next slot's witnessed vote, ProcessVotes signed by the account
\* alone fails with MissingRequiredSignature and changes nothing, ProcessVotes
\* with new_voter as co-signer returns Ok and pushes the vote with
\* confirmation_count 1, and new_voter is the one key whose signature
\* ProcessVotes takes.
Keys == {DefaultKey, VoteKey, NodeKey, OtherKey}
TransfersTo(new_voter) ==
    \A signer \in BOOLEAN, others \in SignerSets :
        LET a == authorize_voter(account, signer, others, new_voter)
            vote == [slot |-> back_slot(account.state) + 1, hash |-> "h"]
            slot_hashes == <<<<vote.slot, "h">>>>
            epoch == account.state.epoch
            alone == process_votes_ix(a.account, slot_hashes, epoch, TRUE, {}, <<vote>>)
            cosigned == process_votes_ix(a.account, slot_hashes, epoch, TRUE, {new_voter}, <<vote>>)
            pushed == cosigned.account.state.votes
        IN  a.result = "Ok" =>
               /\ alone = [account |-> a.account, result |-> "MissingRequiredSignature"]
               /\ cosigned.result = "Ok"
               /\ pushed # << >>
               /\ pushed[Len(pushed)] = [slot |-> vote.slot, confirmation_count |-> 1]
               /\ {k \in Keys : process_votes_ix(a.account, slot_hashes, epoch, FALSE, {k},
                                                 <<vote>>).result = "Ok"} = {new_voter}

\* C25, as claimed: Authorize of any key other than the account's own
\* transfers the vote to that key.
C25_AuthorizationTransferred ==
    \A new_voter \in Keys \ {VoteKey} : TransfersTo(new_voter)

\* C26, as claimed: for every pair of balances, Withdraw fails with
\* MissingRequiredSignature when the account does not sign and with
\* InsufficientFunds when its balance is below lamports, both balances as
\* they were; otherwise it returns Ok, the source is lower and the destination
\* higher by lamports, and the sum of the two is as before.
C26_WithdrawConserves ==
    \A signer \in BOOLEAN, lamports \in 0..MaxLamports, overflow_checks \in BOOLEAN :
        LET r == withdraw(account, signer, lamports, dest, overflow_checks) IN
        /\ ~signer =>
              r = [account |-> account, to |-> dest, result |-> "MissingRequiredSignature"]
        /\ signer /\ account.lamports < lamports =>
              r = [account |-> account, to |-> dest, result |-> "InsufficientFunds"]
        /\ signer /\ account.lamports >= lamports =>
              /\ r.result = "Ok"
              /\ r.account.lamports = account.lamports - lamports
              /\ r.to = dest + lamports
              /\ r.account.lamports + r.to = account.lamports + dest

\* A step of the tower that takes a vote: the vote's slot, the votes at the
\* back of the tower that are expired at that slot (the longest run of them),
\* and the votes left when these are gone.
Accepted == account' # account
AcceptedSlot == back_slot(account'.state)
Expired(v, slot) == v.slot + 2 ^ v.confirmation_count < slot
ExpiredSuffix(votes, slot) ==
    CHOOSE k \in 0..Len(votes) :
        /\ \A j \in (Len(votes) - k + 1)..Len(votes) : Expired(votes[j], slot)
        /\ k < Len(votes) => ~Expired(votes[Len(votes) - k], slot)
Unexpired == SubSeq(Tower, 1, Len(Tower) - ExpiredSuffix(Tower, AcceptedSlot))

\* C27: when an accepted vote finds MAX_LOCKOUT_HISTORY votes left by the
\* expiration sweep, the front vote goes, root_slot is its slot, credits is
\* one higher and the tower has MAX_LOCKOUT_HISTORY votes again; when it finds
\* fewer, root_slot and credits stay.
C27_OverflowPromotesRoot ==
    [][Accepted =>
          IF Len(Unexpired) = MAX_LOCKOUT_HISTORY
          THEN /\ account'.state.root_slot = Some(Tower[1].slot)
               /\ account'.state.credits = account.state.credits + 1
               /\ Len(Tower') = MAX_LOCKOUT_HISTORY
               /\ Tower'[1].slot = Tower[2].slot
          ELSE /\ Len(Unexpired) < MAX_LOCKOUT_HISTORY
               /\ account'.state.root_slot = account.state.root_slot
               /\ account'.state.credits = account.state.credits
               /\ Len(Tower') = Len(Unexpired) + 1]_vars

\* A vote that skipped slots came on a full tower with a root: it expired the
\* back and promoted nothing, and the tower is full again.
C27_Witness ==
    /\ swept > 0
    /\ account.state.credits > 0
    /\ Len(Tower) = MAX_LOCKOUT_HISTORY
    /\ Tower[Len(Tower)].slot > Tower[Len(Tower) - 1].slot + 2

\* Where the vote at place i of the new tower was in the old one: one place up
\* when the front is gone.  Its confirmation count before the step: 1 for the
\* vote just pushed.
FrontGone == Tower # << >> /\ Tower'[1].slot # Tower[1].slot
PlaceBefore(i) == IF FrontGone THEN i + 1 ELSE i
CountBefore(i) ==
    IF i = Len(Tower') THEN 1 ELSE Tower[PlaceBefore(i)].confirmation_count

\* C28: an accepted vote raises the confirmation count of the vote at index i
\* from the front (from 0) by one if the depth after the push is above
\* i + confirmation_count, and leaves it otherwise; and as long as no vote has
\* expired and none was promoted, the vote at index i of n has count n - i
\* and lockout 2^(n - i).
C28_LockoutDoubling ==
    [][Accepted =>
          /\ \A i \in 1..Len(Tower') : \A count \in {CountBefore(i)} :
                 /\ i < Len(Tower') => Tower'[i].slot = Tower[PlaceBefore(i)].slot
                 /\ Tower'[i].confirmation_count =
                        IF Len(Tower') > (i - 1) + count THEN count + 1 ELSE count
          /\ swept' = 0 /\ account'.state.root_slot = None =>
                 \A i \in 1..Len(Tower') :
                     /\ Tower'[i].confirmation_count = Len(Tower') - (i - 1)
                     /\ Len(Tower') - (i - 1) < MAX_LOCKOUT_HISTORY =>
                            lockout(Tower'[i]) = 2 ^ (Len(Tower') - (i - 1))]_vars

\* A vote was left under a tower that had lost votes above it and kept its
\* count, which the depth of the tower grown again has not reached.
C28_Witness ==
    /\ Len(Tower) > 2
    /\ Tower[1].confirmation_count > Len(Tower)
    /\ Tower[2].confirmation_count = Len(Tower) - 1

\* C29: an accepted vote for slot s pops the votes at the back of the tower
\* with slot + 2^confirmation_count < s, as far as the first from the back
\* that is not so, and none below it; a back vote whose expiration slot is s
\* stays; and the overflow check and the push see the tower the sweep left.
C29_SweepsExpiredSuffix ==
    [][Accepted =>
          LET back == Tower[Len(Tower)] IN
          \A rest \in {IF Len(Unexpired) = MAX_LOCKOUT_HISTORY THEN Tail(Unexpired)
                                                                ELSE Unexpired} :
              /\ Len(Tower') = Len(rest) + 1
              /\ \A i \in 1..Len(rest) : Tower'[i].slot = rest[i].slot
              /\ Tower # << >> /\ back.slot + 2 ^ back.confirmation_count = AcceptedSlot =>
                     Tower'[Len(Tower') - 1].slot = back.slot]_vars

\* A vote expired several votes at the back and stopped at one not expired,
\* and a later vote for the expiration slot of the back vote left it there.
C29_Witness ==
    /\ swept > 2
    /\ Len(Tower) > 2
    /\ Tower[Len(Tower)].slot > Tower[Len(Tower) - 1].slot + 6
    /\ Tower[Len(Tower) - 1].slot = Tower[Len(Tower) - 2].slot + 1

\* The epochs of epoch_credits, in order.
EpochsOf(vs) == [i \in 1..Len(vs.epoch_credits) |-> vs.epoch_credits[i][1]]
\* They rise from entry to entry and stay below the VoteState's epoch.
Rising(vs) ==
    /\ \A i \in 1..Len(vs.epoch_credits) - 1 : EpochsOf(vs)[i] < EpochsOf(vs)[i + 1]
    /\ vs.epoch_credits # << >> => EpochsOf(vs)[Len(vs.epoch_credits)] < vs.epoch

\* C30, as claimed: epoch_credits never has more than
\* MAX_EPOCH_CREDITS_HISTORY entries and its epochs never fall from one entry
\* to the next, whatever epochs the calls carry.
C30_EpochCreditsOrdered ==
    /\ Len(account.state.epoch_credits) <= MAX_EPOCH_CREDITS_HISTORY
    /\ \A i \in 1..Len(account.state.epoch_credits) - 1 :
          EpochsOf(account.state)[i] <= EpochsOf(account.state)[i + 1]

\* C30, amended: epoch_credits never has more than MAX_EPOCH_CREDITS_HISTORY
\* entries, whatever epochs the calls carry; and a call whose epoch is not
\* below the VoteState's keeps its epochs rising and below the VoteState's
\* epoch, so that they rise as long as no call carries an epoch below that of
\* the credit before it.
C30_OrderedWhileEpochsRise ==
    [][/\ Len(account'.state.epoch_credits) <= MAX_EPOCH_CREDITS_HISTORY
       /\ Rising(account.state) /\ account'.state.epoch >= account.state.epoch =>
             Rising(account'.state)]_vars

\* Credits were earned in more epochs than the history holds: the oldest
\* entries are gone, the history is full and its epochs rise.
C30_Witness ==
    /\ Len(account.state.epoch_credits) = MAX_EPOCH_CREDITS_HISTORY
    /\ EpochsOf(account.state)[1] > 0
    /\ account.state.credits > MAX_EPOCH_CREDITS_HISTORY
    /\ Rising(account.state)

\* The epochs tried with increment_credits on a VoteState.
ProbeEpochs(vs) == {0, vs.epoch, vs.epoch + 1, vs.epoch + 2}

\* C31: on every VoteState the votes reach, increment_credits(epoch) gives
\* credits one higher; with an epoch other than the stored one it appends
\* (stored epoch, credits, last_epoch_credits), drops the oldest entry when
\* more than MAX_EPOCH_CREDITS_HISTORY are left, stores epoch and sets
\* last_epoch_credits to the credits before the call; with the stored epoch
\* it leaves the three as they are; nothing else changes, and no entry of
\* epoch_credits holds the credits earned since the stored epoch began.
C31_IncrementCredits ==
    \A epoch \in ProbeEpochs(account.state) :
        LET vs == account.state
            r == increment_credits(vs, epoch)
            entry == <<vs.epoch, vs.credits, vs.last_epoch_credits>>
            appended == vs.epoch_credits \o <<entry>>
        IN  /\ r.credits = vs.credits + 1
            /\ epoch # vs.epoch =>
                  /\ r.epoch_credits =
                        IF Len(appended) > MAX_EPOCH_CREDITS_HISTORY
                        THEN SubSeq(appended, 2, Len(appended))
                        ELSE appended
                  /\ r.epoch = epoch
                  /\ r.last_epoch_credits = vs.credits
            /\ epoch = vs.epoch =>
                  /\ r.epoch_credits = vs.epoch_credits
                  /\ r.epoch = vs.epoch
                  /\ r.last_epoch_credits = vs.last_epoch_credits
            /\ \A f \in DOMAIN vs \ {"credits", "epoch_credits", "epoch", "last_epoch_credits"} :
                  r[f] = vs[f]
            /\ \A i \in 1..Len(r.epoch_credits) :
                  r.epoch_credits[i][2] <= r.last_epoch_credits
            /\ r.last_epoch_credits < r.credits

\* The history is full, several credits were earned in one epoch, and the next
\* credit in a new epoch drops the oldest entry.
C31_Witness ==
    LET vs == account.state IN
    /\ Len(vs.epoch_credits) = MAX_EPOCH_CREDITS_HISTORY
    /\ \E i \in 1..Len(vs.epoch_credits) : vs.epoch_credits[i][2] > vs.epoch_credits[i][3] + 1
    /\ increment_credits(vs, vs.epoch + 1).epoch_credits[1] = vs.epoch_credits[2]
    /\ increment_credits(vs, vs.epoch).epoch_credits = vs.epoch_credits

\* A lockout of 2^MAX_LOCKOUT_HISTORY is beyond every slot voted for here.
Lapsed(v, slot) ==
    v.confirmation_count < MAX_LOCKOUT_HISTORY /\ v.slot + 2 ^ v.confirmation_count < slot

\* C36, as claimed: after an accepted vote for slot s no vote left in the
\* tower is expired at s.
C36_NoLapsedLockoutLeft ==
    \A i \in 1..Len(Tower) - 1 : ~Lapsed(Tower[i], Tower[Len(Tower)].slot)

\* C36, amended: after an accepted vote for slot s the vote just below it is
\* not expired at s; votes further down may be.
C36_VoteBelowNotLapsed ==
    Len(Tower) > 1 => ~Lapsed(Tower[Len(Tower) - 1], Tower[Len(Tower)].slot)

\* A sweep has cut the tower, and the front vote is expired at the slot of the
\* back vote while the vote below the back is not.
C36_Witness ==
    /\ swept > 0
    /\ Len(Tower) > 2
    /\ Lapsed(Tower[1], Tower[Len(Tower)].slot)
    /\ ~Lapsed(Tower[Len(Tower) - 1], Tower[Len(Tower)].slot)

\* C37: the confirmation counts of the tower fall strictly from front to
\* back and the back vote's is 1, so that the vote at index i from the front
\* (from 0) has a count of at least |votes| - i.
C37_CountsDecrease ==
    /\ \A i \in 1..Len(Tower) - 1 :
          Tower[i].confirmation_count > Tower[i + 1].confirmation_count
    /\ Tower # << >> => Tower[Len(Tower)].confirmation_count = 1
    /\ \A i \in 1..Len(Tower) : Tower[i].confirmation_count >= Len(Tower) - (i - 1)

\* A sweep has cut the tower and it has grown again: somewhere a vote's count
\* is more than one above the next vote's.
C37_Witness ==
    /\ swept > 0
    /\ Len(Tower) > 3
    /\ \E i \in 1..Len(Tower) - 1 :
          Tower[i].confirmation_count > Tower[i + 1].confirmation_count + 1
    /\ Tower[1].confirmation_count > Len(Tower)

\* The step pushes the front of a full tower out of the bottom.
PushedOut == Len(Tower) = MAX_LOCKOUT_HISTORY /\ Tower'[1].slot # Tower[1].slot
Root == account.state.root_slot

\* C38: every confirmation count is between 1 and MAX_LOCKOUT_HISTORY, and a
\* step that changes root_slot pops a front vote whose count is
\* MAX_LOCKOUT_HISTORY.
C38_RootAtMaxLockout ==
    [][/\ \A i \in 1..Len(Tower') :
             /\ Tower'[i].confirmation_count >= 1
             /\ Tower'[i].confirmation_count <= MAX_LOCKOUT_HISTORY
       /\ Root' # Root =>
             /\ Len(Tower) = MAX_LOCKOUT_HISTORY
             /\ Tower[1].confirmation_count = MAX_LOCKOUT_HISTORY
             /\ Root' = Some(Tower[1].slot)]_vars

\* A vote that came late cut the tower; it filled up again and its front, at
\* the full count, was promoted.
C38_Witness ==
    /\ swept > 0
    /\ IsSome(Root)
    /\ Len(Tower) = MAX_LOCKOUT_HISTORY
    /\ Tower[1].confirmation_count = MAX_LOCKOUT_HISTORY
    /\ Tower[1].slot > Unwrap(Root) + 1

\* C39: once set root_slot is never none again and never falls, every change
\* raises it, and when a vote is pushed out of the bottom of the tower
\* root_slot becomes its slot.
C39_RootRises ==
    [][/\ IsSome(Root) => IsSome(Root') /\ Unwrap(Root') >= Unwrap(Root)
       /\ IsSome(Root) /\ Root' # Root => Unwrap(Root') > Unwrap(Root)
       /\ PushedOut => Root' = Some(Tower[1].slot)
       /\ Root' # Root => PushedOut]_vars

\* Several votes were promoted one after the other, past a gap in the slots.
C39_Witness ==
    /\ IsSome(Root)
    /\ Unwrap(Root) > 3
    /\ jumps > 0
    /\ account.state.credits > 2

\* C40: credits is 0 and root_slot none at first; an accepted vote raises
\* credits by one when it pushes a vote out of the bottom of the tower and
\* leaves it otherwise, and root_slot is none exactly when credits is 0.
C40_CreditsCountPromotions ==
    /\ account.state.credits = 0 /\ Root = None
    /\ [][/\ Accepted =>
                account'.state.credits = account.state.credits + (IF PushedOut THEN 1 ELSE 0)
          /\ Root' = None <=> account'.state.credits = 0]_vars

\* Credits were earned in two epochs, with a vote in between that expired
\* votes of a full tower and promoted none.
C40_Witness ==
    /\ account.state.credits > 1
    /\ Len(account.state.epoch_credits) > 1
    /\ swept > 0
    /\ Tower[1].slot = Unwrap(Root) + 1

\* The lists of votes submitted twice to a VoteState, from the back of its
\* tower: rising slots with a gap, a list whose first vote is stale, a list out
\* of order, a list with a vote no witness has; the witnesses are the list's
\* slots with hash "h".
ProbeLists(vs) ==
    LET b == back_slot(vs)
        V(slot) == [slot |-> slot, hash |-> "h"]
        G(slot) == [slot |-> slot, hash |-> "g"]
    IN  {<<V(b + 1), V(b + 2), V(b + 5)>>,
         <<V(b + 3), V(b + 1), V(b + 4)>>,
         <<V(b + 1), G(b + 2), V(b + 3)>>}
        \cup (IF b >= 0 THEN {<<V(b), V(b + 1), V(b + 4)>>} ELSE {})
WitnessesOf(votes) == [i \in 1..Len(votes) |-> <<votes[i].slot, "h">>]
\* The VoteState that has processed the first done votes of the list already.
Processed(vs, votes, done) ==
    process_votes(vs, SubSeq(votes, 1, done), WitnessesOf(votes), vs.epoch + 1)

\* C32: on every VoteState the tower reaches, a list of votes applied a second
\* time with the same witnesses leaves the VoteState as the first application
\* left it, and the VoteStates that have processed none, one, two or all of
\* the list's votes hold the same tower once each has processed the whole
\* list, whether or not a vote of the list promotes a root.
C32_ResubmittedVotesHarmless ==
    \A votes \in ProbeLists(account.state) :
        \A once \in {Processed(account.state, votes, Len(votes))} :
            /\ process_votes(once, votes, WitnessesOf(votes), account.state.epoch + 1) = once
            /\ \A done \in 0..Len(votes) :
                  process_votes(Processed(account.state, votes, done), votes,
                                WitnessesOf(votes), account.state.epoch + 1).votes
                      = once.votes

\* A tower one short of full: the first vote of the list fills it, the second
\* promotes a root and the third expires the second; the states that have
\* processed one and two of its votes differ until both process the whole list.
C32_Witness ==
    LET vs == account.state
        b == back_slot(vs)
        votes == <<[slot |-> b + 1, hash |-> "h"], [slot |-> b + 2, hash |-> "h"],
                   [slot |-> b + 5, hash |-> "h"]>>
        once == Processed(vs, votes, 3)
    IN  /\ Len(vs.votes) = MAX_LOCKOUT_HISTORY - 1
        /\ Processed(vs, votes, 1).votes # Processed(vs, votes, 2).votes
        /\ Processed(vs, votes, 1).root_slot = vs.root_slot
        /\ once.root_slot # vs.root_slot
        /\ \A i \in 1..Len(once.votes) : once.votes[i].slot # b + 2
        /\ process_votes(once, votes, WitnessesOf(votes), vs.epoch + 1) = once
        /\ process_votes(Processed(vs, votes, 1), votes, WitnessesOf(votes), vs.epoch + 1).votes
               = once.votes

\* C20, as claimed: the tower never holds more than MAX_LOCKOUT_HISTORY votes,
\* and no operation on the account lowers credits.
C20_TowerBoundedCreditsGrow ==
    /\ [](Len(Tower) <= MAX_LOCKOUT_HISTORY)
    /\ [][account'.state.credits >= account.state.credits]_vars

\* C6, as claimed: once authorized_voter is not the default key it never is
\* again, and every Initialize then fails with AccountAlreadyInitialized and
\* leaves the account as it is.
C6_InitializedForGood ==
    [][account.state.authorized_voter_pubkey # DefaultKey =>
          /\ account'.state.authorized_voter_pubkey # DefaultKey
          /\ last'.op = "initialize" =>
                last'.result = "AccountAlreadyInitialized" /\ account' = account]_vars

====
